---- MODULE Spec2Model ----
(***************************************************************************)
(* Model of tachyon-infra:                                                 *)
(*   - the migration engine (server/database/migrate.ts on top of the      *)
(*     PostgreSQLManager of server/database/connection.ts), and            *)
(*   - the release manifest (scripts/create-release.sh and the staging /   *)
(*     production deployment workflows described in releases/README.md).   *)
(***************************************************************************)
EXTENDS Integers, Sequences, FiniteSets, TLC

(***************************************************************************)
(* Bounds of the model.                                                    *)
(***************************************************************************)
MaxCatalog == 2
MaxRuns == 3
MaxEdits == 1
MaxReleases == 1
MaxPromotions == 3
MaxBuilds == 1
MaxInvocations == 2
MaxCalls == 3
MaxRetries == 4
MaxBoots == 2
MaxCloses == 2

Versions == {"001", "002"}
Contents == {"A", "B"}

VARIABLES
  MIGRATIONS,          \* the catalog: sequence of [version, description]
  files,               \* files[i]: current content of MIGRATIONS[i].path
  tableExists,         \* schema_migrations has been created
  schema_migrations,   \* committed rows of the tracking table
  schema,              \* committed executions of migration content, in order
  tx,                  \* uncommitted writes of the open transaction
  run,                 \* the command invocation in progress (or last finished)
  prev,                \* the command invocation that finished before `run`
  runs,                \* number of invocations started so far
  edits,               \* number of edits made to migration files so far
  privacy_policy_versions,  \* rows of privacy_policy_versions (their version)
  appi_audit_events    \* rows of appi_audit_events (their environment stamp)

migVars == <<MIGRATIONS, files, tableExists, schema_migrations, schema, tx,
             run, prev, runs, edits, privacy_policy_versions,
             appi_audit_events>>

appiVars == <<privacy_policy_versions, appi_audit_events>>

VARIABLES
  manifest,            \* releases/manifest.json
  pinned,              \* services.*.sha as written when the manifest was created
  latest,              \* the image the floating tag `latest` points to, per service
  stagingApp,          \* image running on staging, per service
  productionApp,       \* image running on production, per service
  validated,           \* images deployed and health-checked by the recorded
                       \* staging promotion of the manifest
  promo,               \* the deployment workflow run in progress (or last finished)
  releases,            \* number of create-release.sh invocations so far
  promotions,          \* number of workflow runs started so far
  builds               \* number of image builds pushed so far

relVars == <<manifest, pinned, latest, stagingApp, productionApp, validated,
             promo, releases, promotions, builds>>

VARIABLES
  pgPool,              \* PostgreSQLManager.pool: "open", or "closed" once null
  checkedOut,          \* number of clients checked out of the pool
  call,                \* call[c]: the query() or transaction() call of caller c
  calls,               \* number of calls started so far
  closes               \* number of close() calls made so far

pgVars == <<pgPool, checkedOut, call, calls, closes>>

VARIABLES
  boot                 \* the initializeConnections() call in progress or last made

connVars == <<boot>>

VARIABLES
  lastCreate           \* the invocation of create-release.sh that has just
                       \* ended, its arguments and exit status (none once
                       \* the next workflow step has run)

scriptVars == <<lastCreate>>

VARIABLES
  racer                \* the migrate() runs of processes started side by
                       \* side against the same store, one record each

concVars == <<racer>>

vars == <<migVars, relVars, pgVars, connVars, scriptVars, concVars>>

(***************************************************************************)
(* Helpers.                                                                *)
(***************************************************************************)
Range(s) == {s[k] : k \in DOMAIN s}

RowVersions(rows) == {r.version : r \in rows}

\* number of events of kind `kind` for catalog position `idx` in a run trace
CountEvents(trace, kind, idx) ==
  Cardinality({k \in DOMAIN trace : trace[k].kind = kind /\ trace[k].idx = idx})

\* number of committed executions of `version` in the schema log
SchemaCount(log, version) ==
  Cardinality({k \in DOMAIN log : log[k].version = version})

(***************************************************************************)
(* migrations catalog (MIGRATIONS) and the run's environment.              *)
(***************************************************************************)
Description(version) == <<"description of", version>>

Unit(v) == [version |-> v, description |-> Description(v)]

\* the catalog of the repository (its one unit, version 001), possibly with
\* more units added after it
Catalogs ==
  {c \in UNION {[1..n -> {Unit(v) : v \in Versions}] : n \in 1..MaxCatalog} :
     c[1] = Unit("001")}

\* the content of every migration file as authored
Authored == "A"

\* ENVIRONMENT_CONFIGS has the single entry "local"
environment == "local"

(***************************************************************************)
(* DatabaseMigrator.generateChecksum: sha256 of the content, hex encoded.  *)
(* Distinct contents have distinct digests.                                *)
(***************************************************************************)
generateChecksum(content) == <<"sha256", content>>

NoChecksum == <<"none">>

\* "no row": the result of a SELECT that matched nothing
NoRow == [version |-> "none", description |-> <<>>, checksum |-> NoChecksum,
          environment |-> "none", applied_at |-> 0]

(***************************************************************************)
(* createMigrationsTable: CREATE TABLE IF NOT EXISTS schema_migrations.    *)
(* Returns the table (existence, rows) after the statement.                *)
(***************************************************************************)
DropAndCreateTable(exists, rows) == [exists |-> TRUE, rows |-> {}]

createMigrationsTable(exists, rows) ==
  IF exists THEN [exists |-> TRUE, rows |-> rows]
            ELSE [exists |-> TRUE, rows |-> {}]

(***************************************************************************)
(* isMigrationApplied: SELECT checksum, environment FROM schema_migrations *)
(* WHERE version = $1; rows[0] of the result when there is one.            *)
(***************************************************************************)
NeverApplied(rows, version) == [applied |-> FALSE, checksum |-> NoChecksum]

isMigrationApplied(rows, version) ==
  IF \E r \in rows : r.version = version
    THEN LET r == CHOOSE r \in rows : r.version = version
         IN  [applied |-> TRUE, checksum |-> r.checksum]
    ELSE [applied |-> FALSE, checksum |-> NoChecksum]

\* existingChecksum === checksum  (applyMigration)
AnyChecksumMatches(existing, computed) == TRUE

ChecksumMatches(existing, computed) == existing = computed

(***************************************************************************)
(* INSERT INTO schema_migrations: `version` is UNIQUE NOT NULL, so the     *)
(* insert is refused when a visible row has the version.                   *)
(***************************************************************************)
UniqueViolation(rows, version) == \E r \in rows : r.version = version

(***************************************************************************)
(* PostgreSQLManager.transaction: COMMIT publishes every write of the      *)
(* transaction, ROLLBACK discards every write of the transaction.          *)
(***************************************************************************)
NoTx == [rows |-> {}, ddl |-> <<>>]

Commit(rows, log, t) == [rows |-> rows \cup t.rows, schema |-> log \o t.ddl]

RollbackKeepsDDL(rows, log, t) == [rows |-> rows, schema |-> log \o t.ddl]

RollbackKeepsRows(rows, log, t) == [rows |-> rows \cup t.rows, schema |-> log]

Rollback(rows, log, t) == [rows |-> rows, schema |-> log]

(***************************************************************************)
(* ENVIRONMENT_CONFIGS (lines 63-73): one entry, "local".  The entry of    *)
(* the repository does not require confirmation; the table is configuration*)
(* data, and the model also runs with an entry that requires it (as the    *)
(* entries left out for dev and prod would), so that the prompt is taken.  *)
(***************************************************************************)
Yes == <<"y", "e", "s">>

ENVIRONMENT_CONFIGS(requiresConfirmation) ==
  [local |-> [name |-> "local",
              requiresConfirmation |-> requiresConfirmation,
              confirmationKeyword |-> Yes]]

\* detectEnvironment, lines 89-105: "" stands for an unset variable
DefaultToLocal(env) == [ok |-> TRUE, environment |-> "local"]

detectEnvironment(env) ==
  IF env = "" THEN [ok |-> FALSE, environment |-> env]
  ELSE IF env \notin {"local", "dev", "prod"} THEN [ok |-> FALSE, environment |-> env]
  ELSE [ok |-> TRUE, environment |-> env]

NoContext ==
  [environment |-> "none", requiresConfirmation |-> FALSE,
   confirmationKeyword |-> <<>>, isCI |-> FALSE, autoConfirm |-> FALSE]

\* buildContext without the failure on an environment that has no entry
BuildContextOfAnyName(env, configs, CI, AUTO_CONFIRM) ==
  LET d == detectEnvironment(env)
  IN  IF ~d.ok THEN [ok |-> FALSE, context |-> NoContext]
      ELSE [ok |-> TRUE,
            context |-> [NoContext EXCEPT !.environment = "local",
                                          !.confirmationKeyword = Yes]]

\* buildContext, lines 140-172: the context, or the error thrown.  For an
\* environment without an entry `config` is undefined and reading
\* config.description throws (line 147).
buildContext(env, configs, CI, AUTO_CONFIRM) ==
  LET d == detectEnvironment(env)
  IN  IF ~d.ok THEN [ok |-> FALSE, context |-> NoContext]
      ELSE IF d.environment \notin DOMAIN configs
        THEN [ok |-> FALSE, context |-> NoContext]
      ELSE IF d.environment # "local"
        THEN [ok |-> FALSE, context |-> NoContext]
      ELSE [ok |-> TRUE,
            context |->
              [environment |-> d.environment,
               requiresConfirmation |->
                  configs[d.environment].requiresConfirmation,
               confirmationKeyword |->
                  configs[d.environment].confirmationKeyword,
               isCI |-> CI = "true",
               autoConfirm |-> AUTO_CONFIRM = "true"]]

\* String.prototype.trim on a string given as its sequence of characters
Whitespace == {" ", "\t"}

RECURSIVE TrimStart(_)
TrimStart(str) ==
  IF str # <<>> /\ Head(str) \in Whitespace THEN TrimStart(Tail(str)) ELSE str

RECURSIVE TrimEnd(_)
TrimEnd(str) ==
  IF str # <<>> /\ str[Len(str)] \in Whitespace
    THEN TrimEnd(SubSeq(str, 1, Len(str) - 1))
    ELSE str

trim(str) == TrimEnd(TrimStart(str))

\* promptConfirmation, lines 227-254: the result, and the number of questions
\* asked on the terminal.  `answer` is what the operator types if asked.
PromptIgnoringCase(context, answer) ==
  IF context.isCI \/ context.autoConfirm THEN [confirmed |-> TRUE, prompts |-> 0]
  ELSE IF ~context.requiresConfirmation THEN [confirmed |-> TRUE, prompts |-> 0]
  ELSE [confirmed |-> Len(trim(answer)) = Len(context.confirmationKeyword),
        prompts |-> 1]

promptConfirmation(context, answer) ==
  IF context.isCI \/ context.autoConfirm THEN [confirmed |-> TRUE, prompts |-> 0]
  ELSE IF ~context.requiresConfirmation THEN [confirmed |-> TRUE, prompts |-> 0]
  ELSE [confirmed |-> trim(answer) = context.confirmationKeyword,
        prompts |-> 1]

(***************************************************************************)
(* The record of one command invocation.                                   *)
(***************************************************************************)
\* the processes that run `migrate` side by side
Runners == {1, 2}

\* the migrate() run of one of them: its position, its loop variables, the
\* uncommitted writes of its own transaction, the versions it found not
\* applied at the lookup of its loop (line 427) and those it committed
NoRacer ==
  [pc |-> "done", i |-> 0, wasApplied |-> FALSE, checksum |-> NoChecksum,
   tx |-> NoTx, appliedCount |-> 0, error |-> "none", exitCode |-> -1,
   now |-> 0, observed |-> {}, committed |-> {}]

NoRun ==
  [cmd |-> "none", pc |-> "done", i |-> 0, wasApplied |-> FALSE,
   sqlContent |-> "none", checksum |-> NoChecksum, found |-> NoRow,
   appliedCount |-> 0, error |-> "none", failedAt |-> 0, trace |-> <<>>,
   before |-> {}, beforeSchema |-> <<>>, after |-> {}, afterSchema |-> <<>>,
   editsAtStart |-> 0, storeFailure |-> FALSE, exitCode |-> -1,
   pool |-> "closed", now |-> 0,
   statusApplied |-> {}, statusPending |-> <<>>,
   main |-> FALSE, selector |-> "local", context |-> NoContext,
   answer |-> <<>>, gate |-> "none", prompts |-> 0, migrated |-> FALSE,
   health |-> "none"]

NewRun(cmd, firstPc) ==
  [NoRun EXCEPT !.cmd = cmd, !.pc = firstPc,
                !.before = schema_migrations, !.beforeSchema = schema,
                !.editsAtStart = edits, !.pool = "open", !.now = runs + 1]

Event(kind, idx) == [kind |-> kind, idx |-> idx]

Log(r, kind) == [r EXCEPT !.trace = Append(@, Event(kind, r.i))]

(***************************************************************************)
(* migrate(): an error thrown inside the try block (lines 410-437) goes to *)
(* the catch block, which ends the run; the loop is not resumed.           *)
(***************************************************************************)
ContinueAfterError(r, err, injected) ==
  [r EXCEPT !.pc = "m_loop", !.i = r.i + 1, !.error = err, !.failedAt = r.i,
            !.storeFailure = @ \/ injected]

OnError(r, err, injected) ==
  [r EXCEPT !.pc = "m_catch", !.error = err, !.failedAt = r.i,
            !.storeFailure = @ \/ injected]

Idle == run.pc = "done"

\* connection.ts 157-159: getConnection throws "PostgreSQL pool not
\* initialized" when this.pool is null, which close() makes it (line 318)
PoolInitialized(pool) == pool = "open"

\* what is remembered of an invocation once the next one has started: of a
\* failed one, that it failed and what it left in the store
Summary(r) ==
  [cmd |-> r.cmd, error |-> IF r.error = "none" THEN "none" ELSE "failed",
   appliedCount |-> r.appliedCount,
   before |-> r.before, after |-> r.after, afterSchema |-> r.afterSchema,
   editsAtStart |-> r.editsAtStart, storeFailure |-> r.storeFailure,
   execd |-> IF r.error = "none"
               THEN SelectSeq(r.trace, LAMBDA e : e.kind = "exec")
               ELSE <<>>]

(***************************************************************************)
(* Init: an empty database, any catalog, the files as authored.            *)
(***************************************************************************)
MigInit ==
  /\ MIGRATIONS \in Catalogs
  /\ files = [i \in DOMAIN MIGRATIONS |-> Authored]
  /\ tableExists = FALSE
  /\ schema_migrations = {}
  /\ schema = <<>>
  /\ tx = NoTx
  /\ run = NoRun
  /\ prev = Summary(NoRun)
  /\ runs = 0
  /\ edits = 0
  /\ privacy_policy_versions = <<>>
  /\ appi_audit_events = <<>>
  /\ racer = [r \in Runners |-> NoRacer]

(***************************************************************************)
(* A migration file is edited on disk (the cause of drift).  A run reads   *)
(* each file once, when it reaches the unit (readFileSync, line 351), so   *)
(* an edit made during a run acts as an edit made before the run (unit not *)
(* yet read) or after it (unit already read): edits are taken between runs,*)
(* and only while a run that would read the file can still start.          *)
(***************************************************************************)
EditFile ==
  /\ Idle
  /\ edits < MaxEdits
  /\ runs < MaxRuns
  /\ \E i \in DOMAIN MIGRATIONS, c \in Contents :
       /\ c # files[i]
       /\ files' = [files EXCEPT ![i] = c]
  /\ edits' = edits + 1
  /\ UNCHANGED <<MIGRATIONS, tableExists, schema_migrations, schema, tx, run,
                 prev, runs, appiVars>>
  /\ UNCHANGED <<relVars, pgVars, connVars, scriptVars, concVars>>

(***************************************************************************)
(* migrate(), lines 407-444.                                               *)
(***************************************************************************)
StartMigrate ==
  /\ Idle
  /\ runs < MaxRuns
  /\ prev' = Summary(run)
  /\ run' = NewRun("migrate", "m_health")
  /\ runs' = runs + 1
  /\ UNCHANGED <<MIGRATIONS, files, tableExists, schema_migrations, schema, tx,
                 edits, appiVars>>
  /\ UNCHANGED <<relVars, pgVars, connVars, scriptVars, concVars>>

\* a run that goes on whatever the health check reported
HealthIgnored(healthy) == TRUE

\* lines 412-414 and 454-456: `if (!health.healthy) throw`
HealthGate(healthy) == healthy

\* what healthCheck() reported
Verdict(healthy) == IF healthy THEN "healthy" ELSE "unhealthy"

\* lines 411-416: healthCheck()
MigrateHealthCheck ==
  /\ run.pc = "m_health"
  /\ \E healthy \in BOOLEAN :
       run' = IF HealthGate(healthy)
                THEN [run EXCEPT !.pc = "m_create", !.health = Verdict(healthy)]
                ELSE [OnError(run, "unhealthy", TRUE) EXCEPT
                        !.health = Verdict(healthy)]
  /\ UNCHANGED <<MIGRATIONS, files, tableExists, schema_migrations, schema, tx,
                 prev, runs, edits, appiVars>>
  /\ UNCHANGED <<relVars, pgVars, connVars, scriptVars, concVars>>

\* line 419: createMigrationsTable()
MigrateCreateTable ==
  /\ run.pc = "m_create"
  /\ \E ok \in BOOLEAN :
       IF ok
         THEN LET t == createMigrationsTable(tableExists, schema_migrations)
              IN  /\ tableExists' = t.exists
                  /\ schema_migrations' = t.rows
                  /\ run' = [run EXCEPT !.pc = "m_loop", !.i = 1]
         ELSE /\ run' = OnError(run, "query", TRUE)
              /\ UNCHANGED <<tableExists, schema_migrations>>
  /\ UNCHANGED <<MIGRATIONS, files, schema, tx, prev, runs, edits, appiVars>>
  /\ UNCHANGED <<relVars, pgVars, connVars, scriptVars, concVars>>

\* lines 427-428: next unit of the catalog, `wasApplied` lookup
MigrateLoop ==
  /\ run.pc = "m_loop"
  /\ IF run.i > Len(MIGRATIONS)
       THEN run' = [run EXCEPT !.pc = "m_finally"]
       ELSE \E ok \in BOOLEAN :
              IF ok
                THEN run' = [Log(run, "lookup") EXCEPT
                               !.pc = "a_lookup",
                               !.wasApplied =
                                  isMigrationApplied(schema_migrations,
                                     MIGRATIONS[run.i].version).applied]
                ELSE run' = OnError(Log(run, "lookup"), "query", TRUE)
  /\ UNCHANGED <<MIGRATIONS, files, tableExists, schema_migrations, schema, tx,
                 prev, runs, edits, appiVars>>
  /\ UNCHANGED <<relVars, pgVars, connVars, scriptVars, concVars>>

\* applyMigration, lines 350-374: read the file, digest, lookup, compare
ApplyLookup ==
  /\ run.pc = "a_lookup"
  /\ LET m        == MIGRATIONS[run.i]
         content  == files[run.i]
         checksum == generateChecksum(content)
         res      == isMigrationApplied(schema_migrations, m.version)
         row      == IF \E r \in schema_migrations : r.version = m.version
                       THEN CHOOSE r \in schema_migrations : r.version = m.version
                       ELSE NoRow
         r1       == [Log(run, "lookup") EXCEPT !.sqlContent = content,
                                                !.checksum = checksum,
                                                !.found = row]
     IN \E ok \in BOOLEAN :
          IF ~ok THEN run' = OnError(Log(run, "lookup"), "query", TRUE)
          ELSE IF res.applied
            THEN IF ChecksumMatches(res.checksum, checksum)
                   THEN run' = [r1 EXCEPT !.pc = "m_counted"]
                   ELSE run' = OnError(r1, "drift", FALSE)
            ELSE run' = [r1 EXCEPT !.pc = "t_begin"]
  /\ UNCHANGED <<MIGRATIONS, files, tableExists, schema_migrations, schema, tx,
                 prev, runs, edits, appiVars>>
  /\ UNCHANGED <<relVars, pgVars, connVars, scriptVars, concVars>>

\* connection.ts 223-227: getConnection(), BEGIN
TxBegin ==
  /\ run.pc = "t_begin"
  /\ \E ok \in BOOLEAN :
       run' = IF ok THEN [run EXCEPT !.pc = "t_exec"]
                    ELSE [run EXCEPT !.pc = "t_rollback", !.storeFailure = TRUE]
  /\ tx' = NoTx
  /\ UNCHANGED <<MIGRATIONS, files, tableExists, schema_migrations, schema,
                 prev, runs, edits, appiVars>>
  /\ UNCHANGED <<relVars, pgVars, connVars, scriptVars, concVars>>

\* migrate.ts 380: client.query(sqlContent)
TxExec ==
  /\ run.pc = "t_exec"
  /\ \E ok \in BOOLEAN :
       IF ok
         THEN /\ tx' = [tx EXCEPT !.ddl = Append(@,
                          [version |-> MIGRATIONS[run.i].version,
                           content |-> run.sqlContent])]
              /\ run' = [Log(run, "exec") EXCEPT !.pc = "t_insert"]
         ELSE /\ tx' = tx
              /\ run' = [run EXCEPT !.pc = "t_rollback", !.storeFailure = TRUE]
  /\ UNCHANGED <<MIGRATIONS, files, tableExists, schema_migrations, schema,
                 prev, runs, edits, appiVars>>
  /\ UNCHANGED <<relVars, pgVars, connVars, scriptVars, concVars>>

\* migrate.ts 383-391: INSERT INTO schema_migrations
TxInsert ==
  /\ run.pc = "t_insert"
  /\ LET m == MIGRATIONS[run.i]
         row == [version |-> m.version, description |-> m.description,
                 checksum |-> run.checksum, environment |-> environment,
                 applied_at |-> run.now]
     IN \E ok \in BOOLEAN :
          IF ~ok
            THEN /\ tx' = tx
                 /\ run' = [run EXCEPT !.pc = "t_rollback",
                                       !.storeFailure = TRUE]
          ELSE IF UniqueViolation(schema_migrations \cup tx.rows, m.version)
            THEN /\ tx' = tx
                 /\ run' = [run EXCEPT !.pc = "t_rollback"]
            ELSE /\ tx' = [tx EXCEPT !.rows = @ \cup {row}]
                 /\ run' = [Log(run, "record") EXCEPT !.pc = "t_commit"]
  /\ UNCHANGED <<MIGRATIONS, files, tableExists, schema_migrations, schema,
                 prev, runs, edits, appiVars>>
  /\ UNCHANGED <<relVars, pgVars, connVars, scriptVars, concVars>>

\* connection.ts 231-234: COMMIT
TxCommit ==
  /\ run.pc = "t_commit"
  /\ \E ok \in BOOLEAN :
       IF ok
         THEN LET c == Commit(schema_migrations, schema, tx)
              IN  /\ schema_migrations' = c.rows
                  /\ schema' = c.schema
                  /\ tx' = NoTx
                  /\ run' = [Log(run, "commit") EXCEPT !.pc = "m_counted"]
         ELSE /\ run' = [run EXCEPT !.pc = "t_rollback", !.storeFailure = TRUE]
              /\ UNCHANGED <<schema_migrations, schema, tx>>
  /\ UNCHANGED <<MIGRATIONS, files, tableExists, prev, runs, edits, appiVars>>
  /\ UNCHANGED <<relVars, pgVars, connVars, scriptVars, concVars>>

\* connection.ts 235-242: ROLLBACK, rethrow, release
TxRollback ==
  /\ run.pc = "t_rollback"
  /\ LET c == Rollback(schema_migrations, schema, tx)
     IN  /\ schema_migrations' = c.rows
         /\ schema' = c.schema
  /\ tx' = NoTx
  /\ run' = OnError(Log(run, "rollback"), "tx", FALSE)
  /\ UNCHANGED <<MIGRATIONS, files, tableExists, prev, runs, edits, appiVars>>
  /\ UNCHANGED <<relVars, pgVars, connVars, scriptVars, concVars>>

\* a count that includes the units found applied
CountEveryUnit(count, wasApplied) == count + 1

\* migrate.ts 430-432: `if (!wasApplied.applied) appliedCount++`
CountApplied(count, wasApplied) == IF wasApplied THEN count ELSE count + 1

\* migrate.ts 430-432: applyMigration returned; count the unit if it was new
MigrateCount ==
  /\ run.pc = "m_counted"
  /\ run' = [run EXCEPT !.pc = "m_loop", !.i = @ + 1,
                        !.sqlContent = "none", !.checksum = NoChecksum,
                        !.found = NoRow,
                        !.appliedCount = CountApplied(@, run.wasApplied)]
  /\ UNCHANGED <<MIGRATIONS, files, tableExists, schema_migrations, schema, tx,
                 prev, runs, edits, appiVars>>
  /\ UNCHANGED <<relVars, pgVars, connVars, scriptVars, concVars>>

\* migrate.ts 438-440: catch, process.exit(1)
MigrateCatch ==
  /\ run.pc = "m_catch"
  /\ run' = [run EXCEPT !.pc = "done", !.exitCode = 1,
                        !.after = schema_migrations, !.afterSchema = schema]
  /\ UNCHANGED <<MIGRATIONS, files, tableExists, schema_migrations, schema, tx,
                 prev, runs, edits, appiVars>>
  /\ UNCHANGED <<relVars, pgVars, connVars, scriptVars, concVars>>

\* migrate.ts 441-443: finally, db.close(); migrate() returns.  In main the
\* next statement is initializeAPPIData() on the same migrator (line 585).
MigrateFinally ==
  /\ run.pc = "m_finally"
  /\ run' = [run EXCEPT !.pc = IF run.main THEN "i_policy" ELSE "done",
                        !.pool = "closed", !.migrated = TRUE,
                        !.after = schema_migrations, !.afterSchema = schema]
  /\ UNCHANGED <<MIGRATIONS, files, tableExists, schema_migrations, schema, tx,
                 prev, runs, edits, appiVars>>
  /\ UNCHANGED <<relVars, pgVars, connVars, scriptVars, concVars>>

(***************************************************************************)
(* status(), lines 449-501.                                                *)
(***************************************************************************)
\* lines 481-486: the catalog units whose version is not among the applied
pendingMigrations(allMigrations, appliedVersions) ==
  SelectSeq(allMigrations, LAMBDA m : m.version \notin appliedVersions)

StartStatus ==
  /\ Idle
  /\ runs < MaxRuns
  /\ prev' = Summary(run)
  /\ run' = NewRun("status", "s_health")
  /\ runs' = runs + 1
  /\ UNCHANGED <<MIGRATIONS, files, tableExists, schema_migrations, schema, tx,
                 edits, appiVars>>
  /\ UNCHANGED <<relVars, pgVars, connVars, scriptVars, concVars>>

\* lines 453-456: healthCheck()
StatusHealthCheck ==
  /\ run.pc = "s_health"
  /\ \E healthy \in BOOLEAN :
       run' = IF HealthGate(healthy)
                THEN [run EXCEPT !.pc = "s_create", !.health = Verdict(healthy)]
                ELSE [OnError(run, "unhealthy", TRUE) EXCEPT
                        !.pc = "s_catch", !.health = Verdict(healthy)]
  /\ UNCHANGED <<MIGRATIONS, files, tableExists, schema_migrations, schema, tx,
                 prev, runs, edits, appiVars>>
  /\ UNCHANGED <<relVars, pgVars, connVars, scriptVars, concVars>>

\* line 458: createMigrationsTable()
StatusCreateTable ==
  /\ run.pc = "s_create"
  /\ \E ok \in BOOLEAN :
       IF ok
         THEN LET t == createMigrationsTable(tableExists, schema_migrations)
              IN  /\ tableExists' = t.exists
                  /\ schema_migrations' = t.rows
                  /\ run' = [run EXCEPT !.pc = "s_query"]
         ELSE /\ run' = [OnError(run, "query", TRUE) EXCEPT !.pc = "s_catch"]
              /\ UNCHANGED <<tableExists, schema_migrations>>
  /\ UNCHANGED <<MIGRATIONS, files, schema, tx, prev, runs, edits, appiVars>>
  /\ UNCHANGED <<relVars, pgVars, connVars, scriptVars, concVars>>

\* lines 460-494: SELECT ... FROM schema_migrations, applied / pending lists
StatusQuery ==
  /\ run.pc = "s_query"
  /\ \E ok \in BOOLEAN :
       IF ok
         THEN LET appliedVersions == RowVersions(schema_migrations)
              IN  run' = [run EXCEPT
                            !.pc = "s_finally",
                            !.statusApplied = schema_migrations,
                            !.statusPending =
                               pendingMigrations(MIGRATIONS, appliedVersions)]
         ELSE run' = [OnError(run, "query", TRUE) EXCEPT !.pc = "s_catch"]
  /\ UNCHANGED <<MIGRATIONS, files, tableExists, schema_migrations, schema, tx,
                 prev, runs, edits, appiVars>>
  /\ UNCHANGED <<relVars, pgVars, connVars, scriptVars, concVars>>

\* lines 495-497: catch, process.exit(1)
StatusCatch ==
  /\ run.pc = "s_catch"
  /\ run' = [run EXCEPT !.pc = "done", !.exitCode = 1,
                        !.after = schema_migrations, !.afterSchema = schema]
  /\ UNCHANGED <<MIGRATIONS, files, tableExists, schema_migrations, schema, tx,
                 prev, runs, edits, appiVars>>
  /\ UNCHANGED <<relVars, pgVars, connVars, scriptVars, concVars>>

\* lines 498-500: finally, db.close(); status() returns; main exits 0 (616)
StatusFinally ==
  /\ run.pc = "s_finally"
  /\ run' = [run EXCEPT !.pc = "done", !.pool = "closed",
                        !.exitCode = IF run.main THEN 0 ELSE @,
                        !.after = schema_migrations, !.afterSchema = schema]
  /\ UNCHANGED <<MIGRATIONS, files, tableExists, schema_migrations, schema, tx,
                 prev, runs, edits, appiVars>>
  /\ UNCHANGED <<relVars, pgVars, connVars, scriptVars, concVars>>

(***************************************************************************)
(* initializeAPPIData(), lines 506-548 (the init-appi command).            *)
(***************************************************************************)
StartInitAPPI ==
  /\ Idle
  /\ runs < MaxRuns
  /\ prev' = Summary(run)
  /\ run' = NewRun("init-appi", "i_policy")
  /\ runs' = runs + 1
  /\ UNCHANGED <<MIGRATIONS, files, tableExists, schema_migrations, schema, tx,
                 edits, appiVars>>
  /\ UNCHANGED <<relVars, pgVars, connVars, scriptVars, concVars>>

\* an insert without the ON CONFLICT clause, into a table without the
\* unique index the clause needs
InsertPolicyVersionAgain(rows, version) == Append(rows, version)

\* lines 512-522: INSERT ... ON CONFLICT (version) DO NOTHING
InsertPolicyVersion(rows, version) ==
  IF version \in Range(rows) THEN rows ELSE Append(rows, version)

\* lines 511-522: INSERT INTO privacy_policy_versions ... ON CONFLICT DO NOTHING;
\* query() starts with getConnection(), which throws once close() has run
AppiInsertPolicy ==
  /\ run.pc = "i_policy"
  /\ \E ok \in BOOLEAN :
       IF ~PoolInitialized(run.pool)
         THEN /\ privacy_policy_versions' = privacy_policy_versions
              /\ run' = [OnError(run, "pool", FALSE) EXCEPT !.pc = "i_finally"]
       ELSE IF ok
         THEN /\ privacy_policy_versions' =
                   InsertPolicyVersion(privacy_policy_versions, "v1.0.0")
              /\ run' = [run EXCEPT !.pc = "i_audit"]
         ELSE /\ privacy_policy_versions' = privacy_policy_versions
              /\ run' = [OnError(run, "query", TRUE) EXCEPT !.pc = "i_finally"]
  /\ UNCHANGED <<MIGRATIONS, files, tableExists, schema_migrations, schema, tx,
                 prev, runs, edits, appi_audit_events>>
  /\ UNCHANGED <<relVars, pgVars, connVars, scriptVars, concVars>>

\* lines 525-539: INSERT INTO appi_audit_events
AppiInsertAudit ==
  /\ run.pc = "i_audit"
  /\ \E ok \in BOOLEAN :
       IF ok
         THEN /\ appi_audit_events' = Append(appi_audit_events, environment)
              /\ run' = [run EXCEPT !.pc = "i_finally"]
         ELSE /\ appi_audit_events' = appi_audit_events
              /\ run' = [OnError(run, "query", TRUE) EXCEPT !.pc = "i_finally"]
  /\ UNCHANGED <<MIGRATIONS, files, tableExists, schema_migrations, schema, tx,
                 prev, runs, edits, privacy_policy_versions>>
  /\ UNCHANGED <<relVars, pgVars, connVars, scriptVars, concVars>>

\* lines 542-547: catch rethrows, finally closes; main exits 0 or 1
AppiFinally ==
  /\ run.pc = "i_finally"
  /\ run' = [run EXCEPT !.pc = "done", !.pool = "closed",
                        !.exitCode = IF run.error = "none" THEN 0 ELSE 1,
                        !.after = schema_migrations, !.afterSchema = schema]
  /\ UNCHANGED <<MIGRATIONS, files, tableExists, schema_migrations, schema, tx,
                 prev, runs, edits, appiVars>>
  /\ UNCHANGED <<relVars, pgVars, connVars, scriptVars, concVars>>

(***************************************************************************)
(* main(), lines 555-621: the command line.                                *)
(***************************************************************************)
Args == {"", "migrate", "status", "init-appi", "help"}

\* values of MIGRATION_ENV ("" when unset)
Selectors == {"", "local", "dev", "prod", "staging"}

\* values of CI and AUTO_CONFIRM ("" when unset) and whether the entry of the
\* environment requires confirmation
Automation ==
  {<<"", "", FALSE>>, <<"", "", TRUE>>, <<"true", "", TRUE>>,
   <<"1", "", TRUE>>, <<"", "true", TRUE>>, <<"true", "true", FALSE>>}

\* the invocations tried: every command and setting with the selector local,
\* the default command, status and an unknown command with every other
\* selector
MainInputs ==
  {<<arg, "local", a>> : arg \in Args, a \in Automation}
    \cup {<<arg, env, <<"", "", FALSE>> >> : arg \in {"", "status", "help"},
                                             env \in Selectors}

\* what the operator may type at the prompt
Answers ==
  {Yes, <<" ">> \o Yes \o <<"\t">>, <<"Y", "E", "S">>, <<"y", " ", "e", "s">>,
   <<"n", "o">>, <<>>}

\* lines 556-564: command, buildContext(), displayTarget(); an error thrown
\* by buildContext is caught at line 617 and ends the process with 1
MainStart ==
  /\ Idle
  /\ runs < MaxInvocations
  /\ \E input \in MainInputs :
       LET arg      == input[1]
           env      == input[2]
           ci       == input[3][1]
           auto     == input[3][2]
           requires == input[3][3]
           command  == IF arg = "" THEN "migrate" ELSE arg
           built    == buildContext(env, ENVIRONMENT_CONFIGS(requires), ci, auto)
           r       == [NewRun(command, "main_gate") EXCEPT
                         !.main = TRUE, !.pool = "none", !.selector = env]
       IN  run' = IF built.ok
                    THEN [r EXCEPT !.context = built.context]
                    ELSE [r EXCEPT !.pc = "done", !.error = "config",
                                   !.exitCode = 1,
                                   !.after = schema_migrations,
                                   !.afterSchema = schema]
  /\ prev' = Summary(run)
  /\ runs' = runs + 1
  /\ UNCHANGED <<MIGRATIONS, files, tableExists, schema_migrations, schema, tx,
                 edits, appiVars>>
  /\ UNCHANGED <<relVars, pgVars, connVars, scriptVars, concVars>>

\* lines 567-576: the confirmation gate; process.exit(1) when not confirmed
MainGateWithoutExit ==
  /\ run.pc = "main_gate"
  /\ \E answer \in Answers :
       LET g == promptConfirmation(run.context, answer)
       IN  run' = [run EXCEPT !.pc = "main_switch", !.prompts = g.prompts,
                              !.answer = answer,
                              !.gate = IF g.confirmed THEN "Proceed" ELSE "Abort"]
  /\ UNCHANGED <<MIGRATIONS, files, tableExists, schema_migrations, schema, tx,
                 prev, runs, edits, appiVars>>
  /\ UNCHANGED <<relVars, pgVars, connVars, scriptVars, concVars>>

MainGate ==
  /\ run.pc = "main_gate"
  /\ IF run.context.requiresConfirmation \/ run.cmd = "migrate"
       THEN \E answer \in Answers :
              LET g == promptConfirmation(run.context, answer)
                  r == [run EXCEPT !.prompts = g.prompts,
                                   !.answer = IF g.prompts = 0 THEN <<>>
                                                               ELSE answer]
              IN  run' = IF g.confirmed
                           THEN [r EXCEPT !.pc = "main_switch",
                                          !.gate = "Proceed"]
                           ELSE [r EXCEPT !.pc = "done", !.gate = "Abort",
                                          !.error = "declined", !.exitCode = 1,
                                          !.after = schema_migrations,
                                          !.afterSchema = schema]
       ELSE run' = [run EXCEPT !.pc = "main_switch"]
  /\ UNCHANGED <<MIGRATIONS, files, tableExists, schema_migrations, schema, tx,
                 prev, runs, edits, appiVars>>
  /\ UNCHANGED <<relVars, pgVars, connVars, scriptVars, concVars>>

\* the migrator reads nothing of the context but the environment name
\* (line 537) and the connection parameters: the rest is dropped here
Migrating(context) == [NoContext EXCEPT !.environment = context.environment]

\* a switch whose default case runs the migration
DispatchOrMigrate(command) ==
  IF command = "status" THEN "s_health"
  ELSE IF command = "init-appi" THEN "i_policy"
  ELSE "m_health"

\* lines 579-613: the switch on the command: where each case starts, the
\* default case being the usage text
Dispatch(command) ==
  IF command = "migrate" THEN "m_health"
  ELSE IF command = "status" THEN "s_health"
  ELSE IF command = "init-appi" THEN "i_policy"
  ELSE "usage"

\* lines 579-614: new DatabaseMigrator (which creates the pool), then the
\* switch on the command; an unknown command prints the usage and exits 1
MainSwitch ==
  /\ run.pc = "main_switch"
  /\ LET r == [run EXCEPT !.pool = "open", !.context = Migrating(@),
                          !.answer = <<>>]
         d == Dispatch(run.cmd)
     IN  run' =
           IF d # "usage" THEN [r EXCEPT !.pc = d]
           ELSE [r EXCEPT !.pc = "done", !.error = "usage", !.exitCode = 1,
                          !.after = schema_migrations, !.afterSchema = schema]
  /\ UNCHANGED <<MIGRATIONS, files, tableExists, schema_migrations, schema, tx,
                 prev, runs, edits, appiVars>>
  /\ UNCHANGED <<relVars, pgVars, connVars, scriptVars, concVars>>

MainNext ==
  \/ EditFile
  \/ MainStart
  \/ MainGate
  \/ MainSwitch
  \/ MigrateHealthCheck
  \/ MigrateCreateTable
  \/ MigrateLoop
  \/ ApplyLookup
  \/ TxBegin
  \/ TxExec
  \/ TxInsert
  \/ TxCommit
  \/ TxRollback
  \/ MigrateCount
  \/ MigrateCatch
  \/ MigrateFinally
  \/ StatusHealthCheck
  \/ StatusCreateTable
  \/ StatusQuery
  \/ StatusCatch
  \/ StatusFinally
  \/ AppiInsertPolicy
  \/ AppiInsertAudit
  \/ AppiFinally

MigNext ==
  \/ EditFile
  \/ StartMigrate
  \/ MigrateHealthCheck
  \/ MigrateCreateTable
  \/ MigrateLoop
  \/ ApplyLookup
  \/ TxBegin
  \/ TxExec
  \/ TxInsert
  \/ TxCommit
  \/ TxRollback
  \/ MigrateCount
  \/ MigrateCatch
  \/ MigrateFinally
  \/ StartStatus
  \/ StatusHealthCheck
  \/ StatusCreateTable
  \/ StatusQuery
  \/ StatusCatch
  \/ StatusFinally
  \/ StartInitAPPI
  \/ AppiInsertPolicy
  \/ AppiInsertAudit
  \/ AppiFinally

(***************************************************************************)
(* Release manifest: scripts/create-release.sh and the two deployment      *)
(* workflows (deploy-staging.yml, deploy-prod.yml) as releases/README.md   *)
(* describes them.                                                         *)
(***************************************************************************)
Services == {"tachyon-api", "tachyon-workers", "tachyon-db-migrate"}
ManifestVersions == {"0.1.0", "0.2.0"}
Shas == {"abc1234", "def5678"}

Blank == ""                       \* an argument or input left empty
Unset == <<>>                     \* the empty string of a deployed_at field
Time(n) == <<"time", n>>          \* a timestamp

Image(s) == <<"ghcr.io/tachyonapp", s>>

\* create-release.sh lines 14-48: the document written to manifest.json
CreateReleaseDoc(version, api, workers, db) ==
  LET sha == [s \in Services |->
                IF s = "tachyon-api" THEN api
                ELSE IF s = "tachyon-workers" THEN workers ELSE db]
  IN [version      |-> version,
      services     |-> [s \in Services |->
                          [sha |-> sha[s], image |-> Image(s), tag |-> sha[s]]],
      environments |->
        [staging    |-> [deployed_at |-> Unset, deployed_by |-> ""],
         production |-> [deployed_at |-> Unset, deployed_by |-> "",
                         approved_by |-> ""]]]

\* a check of the arguments that looks at the version only
VersionPresent(version, api, workers, db) == version # Blank

\* create-release.sh lines 7-10: ${n:?...} fails on a missing or empty argument
ArgsPresent(version, api, workers, db) ==
  /\ version # Blank /\ api # Blank /\ workers # Blank /\ db # Blank

\* deploy-staging step 2: provided SHAs or `latest`
ResolveTags(overrides) ==
  [s \in Services |-> IF overrides[s] # Blank THEN overrides[s] ELSE "latest"]

\* the image a tag denotes in the registry at the time of a deployment
ImagesOf(tags) ==
  [s \in Services |-> IF tags[s] = "latest" THEN latest[s] ELSE tags[s]]

\* deploy-staging step 5: write back the deployed tags and staging metadata
StagingWriteBack(m, tags, actor, t) ==
  [m EXCEPT !.services = [s \in Services |-> [m.services[s] EXCEPT !.tag = tags[s]]],
            !.environments.staging = [deployed_at |-> t, deployed_by |-> actor]]

\* deploy-prod step 2: confirm_version must equal manifest.version
AnyVersionMatches(confirm, m) == TRUE

VersionMatches(confirm, m) == confirm = m.version

\* deploy-prod step 3: environments.staging.deployed_at is populated
StagingAlwaysDone(m) == TRUE

StagingDone(m) == m.environments.staging.deployed_at # Unset

\* deploy-prod step 4: the exact SHAs of the manifest
ExtractTags(m) == [s \in Services |-> m.services[s].tag]

ExtractShas(m) == [s \in Services |-> m.services[s].sha]

\* deploy-prod step 6: write back the production metadata
ProductionWriteBack(m, actor, approver, t) ==
  [m EXCEPT !.environments.production =
              [deployed_at |-> t, deployed_by |-> actor, approved_by |-> approver]]

NoImages == [s \in Services |-> "none"]

\* the inputs tried: the api SHA varies, the other two services share one
PerService(api, others) ==
  [s \in Services |-> IF s = "tachyon-api" THEN api ELSE others]

ReleaseArgs ==
  {<<v, a, "abc1234", "abc1234">> : v \in ManifestVersions, a \in Shas}
    \cup {<<Blank, "abc1234", "abc1234", "abc1234">>,
          <<"0.2.0", Blank, "abc1234", "abc1234">>,
          <<"0.2.0", "abc1234", Blank, "abc1234">>,
          <<"0.2.0", "abc1234", "abc1234", Blank>>,
          <<"0.2.0", "abc1234", "def5678", "abc1234">>}

StagingInputs ==
  {PerService(a, b) : a \in Shas \cup {Blank}, b \in {"abc1234", Blank}}

NoPromo ==
  [kind |-> "none", pc |-> "done", outcome |-> "none", confirm |-> Blank,
   tags |-> NoImages, images |-> NoImages, deployed |-> FALSE,
   health |-> "none",
   manifestAtStart |-> CreateReleaseDoc("none", "none", "none", "none"),
   now |-> 0]

NoPromotionRunning == promo.pc = "done"

\* a workflow that goes on to the write-back whatever the polling reported
WriteBackRegardless(healthy, writePc) ==
  [pc |-> writePc, outcome |-> "none",
   health |-> IF healthy THEN "healthy" ELSE "timeout"]

\* the health step of both workflows: on to the write-back when the service
\* reported healthy, the run fails when the polling timed out
AfterHealth(healthy, writePc) ==
  IF healthy THEN [pc |-> writePc, outcome |-> "none", health |-> "healthy"]
             ELSE [pc |-> "done", outcome |-> "HealthCheckTimeout",
                   health |-> "timeout"]

NoCreate == [args |-> <<"none", "none", "none", "none">>, status |-> -1]

RelInit ==
  /\ manifest = CreateReleaseDoc("0.1.0", "abc1234", "abc1234", "abc1234")
  /\ pinned = ExtractShas(manifest)
  /\ latest = [s \in Services |-> "abc1234"]
  /\ stagingApp = NoImages
  /\ productionApp = NoImages
  /\ validated = NoImages
  /\ promo = NoPromo
  /\ releases = 0
  /\ promotions = 0
  /\ builds = 0
  /\ lastCreate = NoCreate

\* scripts/create-release.sh: an invocation of the script, taken while a
\* workflow run that would read its manifest can still start
RunCreateRelease ==
  /\ releases < MaxReleases
  /\ promotions < MaxPromotions
  /\ \E args \in ReleaseArgs :
       /\ IF ArgsPresent(args[1], args[2], args[3], args[4])
            THEN /\ manifest' = CreateReleaseDoc(args[1], args[2], args[3], args[4])
                 /\ pinned' = ExtractShas(manifest')
                 /\ validated' = NoImages
            ELSE UNCHANGED <<manifest, pinned, validated>>
       /\ lastCreate' =
            [args |-> args,
             status |-> IF ArgsPresent(args[1], args[2], args[3], args[4])
                          THEN 0 ELSE 1]
  /\ releases' = releases + 1
  /\ UNCHANGED <<latest, stagingApp, productionApp, promo, promotions, builds>>
  /\ UNCHANGED <<migVars, pgVars, connVars, concVars>>

\* scripts/create-release.sh, run while no workflow is running
CreateRelease ==
  /\ NoPromotionRunning
  /\ RunCreateRelease

\* scripts/create-release.sh, run by an engineer while a production
\* promotion is between its staging check and its write-back: the script
\* takes no lock and does not look at running workflows
CreateReleaseDuringPromotion ==
  /\ promo.kind = "production"
  /\ promo.pc \in {"p_deploy", "p_health", "p_write"}
  /\ RunCreateRelease

\* the services whose repository pushes builds (as with the inputs, the api
\* image varies)
BuiltServices == {"tachyon-api"}

\* a service repository pushes a new image; `latest` moves to it.  A workflow
\* run resolves `latest` once, when it deploys, so builds are taken between
\* workflow runs, and only while a run that would resolve it can still start.
NewBuild ==
  /\ NoPromotionRunning
  /\ builds < MaxBuilds
  /\ promotions < MaxPromotions
  /\ \E s \in BuiltServices, sha \in Shas :
       /\ sha # latest[s]
       /\ latest' = [latest EXCEPT ![s] = sha]
  /\ builds' = builds + 1
  /\ UNCHANGED <<manifest, pinned, stagingApp, productionApp, validated, promo,
                 releases, promotions>>
  /\ lastCreate' = NoCreate
  /\ UNCHANGED <<migVars, pgVars, connVars, concVars>>

\* deploy-staging.yml steps 1-2: dispatch with optional SHAs, resolve the tags
StagingStart ==
  /\ NoPromotionRunning
  /\ promotions < MaxPromotions
  /\ \E overrides \in StagingInputs :
       promo' = [NoPromo EXCEPT !.kind = "staging", !.pc = "s_deploy",
                                !.tags = ResolveTags(overrides),
                                !.manifestAtStart = manifest,
                                !.now = promotions + 1]
  /\ promotions' = promotions + 1
  /\ UNCHANGED <<manifest, pinned, latest, stagingApp, productionApp, validated,
                 releases, builds>>
  /\ lastCreate' = NoCreate
  /\ UNCHANGED <<migVars, pgVars, connVars, concVars>>

\* deploy-staging.yml step 3: update the App Spec and deploy
StagingDeploy ==
  /\ promo.pc = "s_deploy"
  /\ stagingApp' = ImagesOf(promo.tags)
  /\ promo' = [promo EXCEPT !.pc = "s_health", !.images = stagingApp',
                            !.deployed = TRUE]
  /\ UNCHANGED <<manifest, pinned, latest, productionApp, validated, releases,
                 promotions, builds>>
  /\ lastCreate' = NoCreate
  /\ UNCHANGED <<migVars, pgVars, connVars, concVars>>

\* deploy-staging.yml step 4: poll /health until healthy or timed out
StagingHealth ==
  /\ promo.pc = "s_health"
  /\ \E healthy \in BOOLEAN :
       LET h == AfterHealth(healthy, "s_write")
       IN  promo' = [promo EXCEPT !.pc = h.pc, !.outcome = h.outcome,
                                  !.health = h.health]
  /\ UNCHANGED <<manifest, pinned, latest, stagingApp, productionApp, validated,
                 releases, promotions, builds>>
  /\ lastCreate' = NoCreate
  /\ UNCHANGED <<migVars, pgVars, connVars, concVars>>

\* deploy-staging.yml steps 5-6: write back to the manifest and commit
StagingWrite ==
  /\ promo.pc = "s_write"
  /\ manifest' = StagingWriteBack(manifest, promo.tags, "engineer",
                                  Time(promo.now))
  /\ validated' = promo.images
  /\ promo' = [promo EXCEPT !.pc = "done", !.outcome = "deployed"]
  /\ UNCHANGED <<pinned, latest, stagingApp, productionApp, releases,
                 promotions, builds>>
  /\ lastCreate' = NoCreate
  /\ UNCHANGED <<migVars, pgVars, connVars, concVars>>

\* deploy-prod.yml steps 1-4: dispatch with confirm_version, read the manifest,
\* validate the version, enforce staging-first, extract the SHAs
ProductionStart ==
  /\ NoPromotionRunning
  /\ promotions < MaxPromotions
  /\ \E confirm \in ManifestVersions :
       LET p == [NoPromo EXCEPT !.kind = "production", !.confirm = confirm,
                                !.manifestAtStart = manifest,
                                !.now = promotions + 1]
       IN promo' =
            IF ~VersionMatches(confirm, manifest)
              THEN [p EXCEPT !.outcome = "VersionMismatch"]
            ELSE IF ~StagingDone(manifest)
              THEN [p EXCEPT !.outcome = "StagingNotDone"]
            ELSE [p EXCEPT !.pc = "p_deploy", !.tags = ExtractShas(manifest)]
  /\ promotions' = promotions + 1
  /\ UNCHANGED <<manifest, pinned, latest, stagingApp, productionApp, validated,
                 releases, builds>>
  /\ lastCreate' = NoCreate
  /\ UNCHANGED <<migVars, pgVars, connVars, concVars>>

\* deploy-prod.yml step 5: deploy
ProductionDeploy ==
  /\ promo.pc = "p_deploy"
  /\ productionApp' = ImagesOf(promo.tags)
  /\ promo' = [promo EXCEPT !.pc = "p_health", !.images = productionApp',
                            !.deployed = TRUE]
  /\ UNCHANGED <<manifest, pinned, latest, stagingApp, validated, releases,
                 promotions, builds>>
  /\ lastCreate' = NoCreate
  /\ UNCHANGED <<migVars, pgVars, connVars, concVars>>

\* deploy-prod.yml step 5: verify health
ProductionHealth ==
  /\ promo.pc = "p_health"
  /\ \E healthy \in BOOLEAN :
       LET h == AfterHealth(healthy, "p_write")
       IN  promo' = [promo EXCEPT !.pc = h.pc, !.outcome = h.outcome,
                                  !.health = h.health]
  /\ UNCHANGED <<manifest, pinned, latest, stagingApp, productionApp, validated,
                 releases, promotions, builds>>
  /\ lastCreate' = NoCreate
  /\ UNCHANGED <<migVars, pgVars, connVars, concVars>>

\* deploy-prod.yml steps 6-7: write back to the manifest and commit
ProductionWrite ==
  /\ promo.pc = "p_write"
  /\ manifest' = ProductionWriteBack(manifest, "engineer", "reviewer",
                                     Time(promo.now))
  /\ promo' = [promo EXCEPT !.pc = "done", !.outcome = "deployed"]
  /\ UNCHANGED <<pinned, latest, stagingApp, productionApp, validated, releases,
                 promotions, builds>>
  /\ lastCreate' = NoCreate
  /\ UNCHANGED <<migVars, pgVars, connVars, concVars>>

RelNext ==
  \/ CreateRelease
  \/ NewBuild
  \/ StagingStart
  \/ StagingDeploy
  \/ StagingHealth
  \/ StagingWrite
  \/ ProductionStart
  \/ ProductionDeploy
  \/ ProductionHealth
  \/ ProductionWrite

(***************************************************************************)
(* initializeConnections(retries) and testConnections() (connection.ts).   *)
(* Both healthCheck() methods catch every error and return a verdict, so   *)
(* testConnections() returns a pair of verdicts and never throws.          *)
(***************************************************************************)
NoBoot ==
  [retries |-> 0, attempt |-> 0, pc |-> "done", outcome |-> "none",
   health |-> <<>>, slept |-> 0, n |-> 0]

\* lines 544-557: the verdicts of postgresql.healthCheck() and redis.healthCheck()
testConnections == {[postgresql |-> p, redis |-> r] : p, r \in BOOLEAN}

\* line 575: `health.postgresql.healthy && health.redis.healthy`
AllHealthy(health) == health.postgresql /\ health.redis

\* line 570: the loop condition `attempt <= retries`
LoopTest(b) ==
  IF b.attempt <= b.retries THEN [b EXCEPT !.pc = "test"]
                            ELSE [b EXCEPT !.pc = "done", !.outcome = "returned"]

\* a catch block that never takes an attempt for the last one
NeverLastAttempt(attempt, retries) == FALSE

\* line 591: `attempt === retries`
LastAttempt(attempt, retries) == attempt = retries

\* a wait of the same length after every failed attempt
ConstantBackoff(attempt) == 2000

\* line 600: Math.pow(2, attempt) * 1000 milliseconds
Backoff(attempt) == (2 ^ attempt) * 1000

\* lines 569-570: the call, `attempt = 1`, the first loop test
BootStart ==
  /\ boot.pc = "done"
  /\ boot.n < MaxBoots
  /\ \E retries \in (-1)..MaxRetries :
       boot' = LoopTest([NoBoot EXCEPT !.retries = retries, !.attempt = 1,
                                       !.pc = "loop", !.n = boot.n + 1])
  /\ UNCHANGED <<migVars, relVars, pgVars, scriptVars, concVars>>

\* lines 571-584: testConnections(); return when both are healthy, throw
\* into the catch block otherwise
BootTest ==
  /\ boot.pc = "test"
  /\ \E health \in testConnections :
       boot' = IF AllHealthy(health)
                 THEN [boot EXCEPT !.health = Append(@, health),
                                   !.pc = "done", !.outcome = "returned"]
                 ELSE [boot EXCEPT !.health = Append(@, health),
                                   !.pc = "catch"]
  /\ UNCHANGED <<migVars, relVars, pgVars, scriptVars, concVars>>

\* lines 585-596: the catch block; the last attempt throws to the caller
BootCatch ==
  /\ boot.pc = "catch"
  /\ boot' = IF LastAttempt(boot.attempt, boot.retries)
               THEN [boot EXCEPT !.pc = "done", !.outcome = "threw"]
               ELSE [boot EXCEPT !.pc = "backoff"]
  /\ UNCHANGED <<migVars, relVars, pgVars, scriptVars, concVars>>

\* lines 598-601 and 570: the backoff timer fires, `attempt++`, the loop test
BootBackoff ==
  /\ boot.pc = "backoff"
  /\ boot' = LoopTest([boot EXCEPT !.slept = @ + Backoff(boot.attempt),
                                   !.attempt = @ + 1])
  /\ UNCHANGED <<migVars, relVars, pgVars, scriptVars, concVars>>

\* the steps of a call in progress
BootStep ==
  \/ BootTest
  \/ BootCatch
  \/ BootBackoff

BootNext ==
  \/ BootStart
  \/ BootTest
  \/ BootCatch
  \/ BootBackoff

(***************************************************************************)
(* PostgreSQLManager (connection.ts): query() and transaction() as the     *)
(* steps of their async bodies.  Callers are the async call chains of the  *)
(* process; their steps interleave at every await.                         *)
(***************************************************************************)
Callers == {1, 2}

NoCall ==
  [kind |-> "none", pc |-> "done", acquired |-> FALSE, releases |-> 0,
   outcome |-> "none",
   failed |-> "none",    \* the step whose error the call is failing with
   issued |-> <<>>,      \* the statements sent on the call's client
   audit  |-> {},        \* what became of the call's audit-log emissions
   health |-> [healthy |-> FALSE, latency |-> "none"]]
                         \* what healthCheck() returned

Held == {"acquired", "statement", "begin", "callback", "commit", "rollback",
         "finally"}

NoCallRunning == \A c \in Callers : call[c].pc = "done"

\* transaction(), lines 235-242: where control goes after ROLLBACK; whether
\* it succeeds or throws, the finally block runs next
RollbackThrowSkipsFinally(ok) == IF ok THEN "finally" ELSE "done"

AfterRollback(ok) == "finally"

\* a transaction() that goes on to COMMIT when the callback has thrown
CommitRegardless(ok) == "commit"

\* transaction(), lines 229-236: the callback returns and COMMIT is next, or
\* it throws into the catch block and ROLLBACK is next
AfterCallback(ok) == IF ok THEN "commit" ELSE "rollback"

\* logAuditEvent, lines 251-294: the emission finds no audit_events table
\* (returns at 267), inserts the event, or fails at the table check or at
\* the insert (an error of this.pool.query)
AuditVerdicts == {"logged", "no table", "insert error", "pool error"}

\* constructor, line 80: the pool's `max`, the number of clients it hands
\* out at a time (POSTGRES_MAX_CONNECTIONS, 20 when unset); here one per
\* caller
max == 2

\* an emission that waits for a client of the pool without a time limit
AuditWithoutTimeout(held) == IF held < max THEN AuditVerdicts ELSE {}

\* logAuditEvent, lines 257 and 270: this.pool.query takes a client of its
\* own; when the callers hold them all it waits for one and is rejected
\* after connectionTimeoutMillis (constructor, line 82)
AuditOutcomes(held) == IF held < max THEN AuditVerdicts ELSE {"pool error"}

\* a logAuditEvent that lets the errors of its queries out
AuditErrorsPropagate(verdict) ==
  IF verdict \in {"insert error", "pool error"} THEN "rejected" ELSE "resolved"

\* logAuditEvent, lines 255-293: try { ... } catch { console.error }: the
\* promise resolves whatever happened
logAuditEvent(verdict) == "resolved"

\* healthCheck(), lines 299-310: the verdict made of the outcome of its query
NoHealth == [healthy |-> FALSE, latency |-> "none"]

healthCheck(outcome) ==
  IF outcome = "returned" THEN [healthy |-> TRUE, latency |-> "measured"]
                          ELSE [healthy |-> FALSE, latency |-> -1]

\* what a call that has ended reports besides its outcome
Reported(kind, outcome) ==
  IF kind = "healthCheck" THEN healthCheck(outcome) ELSE NoHealth

\* a close() that builds the pool again when there is none
CloseOrReopen(pool) == IF pool = "open" THEN "closed" ELSE "open"

\* close(), lines 315-320: `if (this.pool) { await this.pool.end();
\* this.pool = null }`
close(pool) == IF pool = "open" THEN "closed" ELSE pool

PgInit ==
  /\ pgPool = "open"
  /\ checkedOut = 0
  /\ call = [c \in Callers |-> NoCall]
  /\ calls = 0
  /\ closes = 0
  /\ boot = NoBoot

\* a caller invokes query(text, params), transaction(callback) or
\* healthCheck(), whose body is a query() inside try/catch
PgCall ==
  /\ calls < MaxCalls
  /\ \E c \in Callers, kind \in {"query", "transaction", "healthCheck"} :
       /\ call[c].pc = "done"
       /\ call' = [call EXCEPT ![c] = [NoCall EXCEPT !.kind = kind,
                                                     !.pc = "connect"]]
  /\ calls' = calls + 1
  /\ UNCHANGED <<pgPool, checkedOut, closes>>
  /\ UNCHANGED <<migVars, relVars, connVars, scriptVars, concVars>>

\* getConnection(), lines 156-173: pool.connect(), then the audit event; an
\* error of either is rethrown by the catch block, which releases nothing
PgGetConnection ==
  /\ \E c \in Callers :
       /\ call[c].pc = "connect"
       /\ \E ok \in BOOLEAN :
            IF ~(PoolInitialized(pgPool) /\ ok)
              THEN /\ checkedOut' = checkedOut
                   /\ call' = [call EXCEPT
                                 ![c].pc = "done",
                                 ![c].outcome = "threw",
                                 ![c].failed = "connect",
                                 ![c].health = Reported(call[c].kind, "threw")]
              ELSE /\ checkedOut' = checkedOut + 1
                   /\ call' = [call EXCEPT ![c].acquired = TRUE,
                                           ![c].pc = "acquired"]
  /\ UNCHANGED <<pgPool, calls, closes>>
  /\ UNCHANGED <<migVars, relVars, connVars, scriptVars, concVars>>

\* getConnection(), lines 164-166: the audit event "Connection acquired",
\* emitted while the client is held, then the client is returned
PgConnectionAudit ==
  /\ \E c \in Callers :
       /\ call[c].pc = "acquired"
       /\ \E verdict \in AuditOutcomes(checkedOut) :
            call' = IF logAuditEvent(verdict) = "resolved"
                      THEN [call EXCEPT
                              ![c].audit = @ \cup {verdict},
                              ![c].pc = IF call[c].kind = "transaction"
                                          THEN "begin" ELSE "statement"]
                      ELSE [call EXCEPT ![c].audit = @ \cup {verdict},
                                        ![c].pc = "done",
                                        ![c].outcome = "threw",
                                        ![c].failed = "audit"]
  /\ UNCHANGED <<pgPool, checkedOut, calls, closes>>
  /\ UNCHANGED <<migVars, relVars, connVars, scriptVars, concVars>>

\* query(), lines 185-210: the audit event, client.query(text, params);
\* return or rethrow, and in both cases the finally block
PgStatement ==
  /\ \E c \in Callers :
       /\ call[c].pc = "statement"
       /\ \E ok \in BOOLEAN, verdict \in AuditOutcomes(checkedOut) :
            call' = IF logAuditEvent(verdict) = "resolved"
                      THEN [call EXCEPT
                              ![c].pc = "finally",
                              ![c].audit = @ \cup {verdict},
                              ![c].issued = Append(@, "QUERY"),
                              ![c].outcome = IF ok THEN "returned" ELSE "threw",
                              ![c].failed = IF ok THEN "none" ELSE "statement"]
                      ELSE [call EXCEPT ![c].pc = "finally",
                                        ![c].audit = @ \cup {verdict},
                                        ![c].outcome = "threw",
                                        ![c].failed = "audit"]
  /\ UNCHANGED <<pgPool, checkedOut, calls, closes>>
  /\ UNCHANGED <<migVars, relVars, connVars, scriptVars, concVars>>

\* transaction(), lines 226-227: BEGIN, then the audit event
PgBegin ==
  /\ \E c \in Callers :
       /\ call[c].pc = "begin"
       /\ \E ok \in BOOLEAN, verdict \in AuditOutcomes(checkedOut) :
            call' = IF ~ok
                      THEN [call EXCEPT ![c].pc = "rollback",
                                        ![c].issued = Append(@, "BEGIN"),
                                        ![c].failed = "begin"]
                    ELSE IF logAuditEvent(verdict) = "resolved"
                      THEN [call EXCEPT ![c].pc = "callback",
                                        ![c].issued = Append(@, "BEGIN"),
                                        ![c].audit = @ \cup {verdict}]
                      ELSE [call EXCEPT ![c].pc = "rollback",
                                        ![c].issued = Append(@, "BEGIN"),
                                        ![c].audit = @ \cup {verdict},
                                        ![c].failed = "audit"]
  /\ UNCHANGED <<pgPool, checkedOut, calls, closes>>
  /\ UNCHANGED <<migVars, relVars, connVars, scriptVars, concVars>>

\* transaction(), line 229: the callback
PgCallback ==
  /\ \E c \in Callers :
       /\ call[c].pc = "callback"
       /\ \E ok \in BOOLEAN :
            call' = IF ok THEN [call EXCEPT ![c].pc = AfterCallback(ok)]
                          ELSE [call EXCEPT ![c].pc = AfterCallback(ok),
                                            ![c].failed = "callback"]
  /\ UNCHANGED <<pgPool, checkedOut, calls, closes>>
  /\ UNCHANGED <<migVars, relVars, connVars, scriptVars, concVars>>

\* transaction(), lines 231-234: COMMIT, the audit event, return the result
PgCommit ==
  /\ \E c \in Callers :
       /\ call[c].pc = "commit"
       /\ \E ok \in BOOLEAN, verdict \in AuditOutcomes(checkedOut) :
            call' = IF ~ok
                      THEN [call EXCEPT ![c].pc = "rollback",
                                        ![c].issued = Append(@, "COMMIT"),
                                        ![c].failed = "commit"]
                    ELSE IF logAuditEvent(verdict) = "resolved"
                      THEN [call EXCEPT ![c].pc = "finally",
                                        ![c].issued = Append(@, "COMMIT"),
                                        ![c].audit = @ \cup {verdict},
                                        ![c].outcome = "returned"]
                      ELSE [call EXCEPT ![c].pc = "rollback",
                                        ![c].issued = Append(@, "COMMIT"),
                                        ![c].audit = @ \cup {verdict},
                                        ![c].failed = "audit"]
  /\ UNCHANGED <<pgPool, checkedOut, calls, closes>>
  /\ UNCHANGED <<migVars, relVars, connVars, scriptVars, concVars>>

\* transaction(), lines 235-239: ROLLBACK, rethrow
PgRollback ==
  /\ \E c \in Callers :
       /\ call[c].pc = "rollback"
       /\ \E ok \in BOOLEAN :
            call' = [call EXCEPT ![c].pc = AfterRollback(ok),
                                 ![c].issued = Append(@, "ROLLBACK"),
                                 ![c].outcome = "threw"]
  /\ UNCHANGED <<pgPool, checkedOut, calls, closes>>
  /\ UNCHANGED <<migVars, relVars, connVars, scriptVars, concVars>>

\* lines 211-213 and 240-242: finally { client.release() }
PgRelease ==
  /\ \E c \in Callers :
       /\ call[c].pc = "finally"
       /\ call' = [call EXCEPT
                     ![c].pc = "done", ![c].releases = @ + 1,
                     ![c].health = Reported(call[c].kind, call[c].outcome)]
  /\ checkedOut' = checkedOut - 1
  /\ UNCHANGED <<pgPool, calls, closes>>
  /\ UNCHANGED <<migVars, relVars, connVars, scriptVars, concVars>>

\* close(), lines 315-320, called once the calls made so far have ended,
\* as the migrator calls it
PgClose ==
  /\ NoCallRunning
  /\ closes < MaxCloses
  /\ pgPool' = close(pgPool)
  /\ closes' = closes + 1
  /\ UNCHANGED <<checkedOut, call, calls>>
  /\ UNCHANGED <<migVars, relVars, connVars, scriptVars, concVars>>

PgNext ==
  \/ PgCall
  \/ PgGetConnection
  \/ PgConnectionAudit
  \/ PgStatement
  \/ PgBegin
  \/ PgCallback
  \/ PgCommit
  \/ PgRollback
  \/ PgRelease
  \/ PgClose

(***************************************************************************)
(* migrate() run by several processes against one store.  Each step is one *)
(* awaited statement; the processes interleave between the statements.     *)
(* Each process has its own client and transaction (READ COMMITTED): it    *)
(* sees the committed rows and its own writes.                             *)
(***************************************************************************)
\* INSERT INTO schema_migrations, `version` UNIQUE (line 298): the insert
\* waits while another transaction holds an uncommitted row of the version,
\* until that transaction commits or rolls back
InsertWaits(r, version) ==
  \E s \in Runners \ {r} : UniqueViolation(racer[s].tx.rows, version)

\* migrate(), lines 411-423: health check, createMigrationsTable(),
\* getMigrationFiles()
ConcStart ==
  /\ runs < MaxRuns
  /\ \E r \in Runners :
       /\ racer[r].pc = "done"
       /\ \E ok \in BOOLEAN :
            IF ok
              THEN /\ tableExists' =
                        createMigrationsTable(tableExists,
                                              schema_migrations).exists
                   /\ racer' = [racer EXCEPT
                                  ![r] = [NoRacer EXCEPT !.pc = "m_loop",
                                                         !.i = 1,
                                                         !.now = runs + 1]]
              ELSE /\ tableExists' = tableExists
                   /\ racer' = [racer EXCEPT
                                  ![r] = [NoRacer EXCEPT !.error = "store",
                                                         !.exitCode = 1,
                                                         !.now = runs + 1]]
  /\ runs' = runs + 1
  /\ UNCHANGED <<MIGRATIONS, files, schema_migrations, schema, tx, run, prev,
                 edits, appiVars>>
  /\ UNCHANGED <<relVars, pgVars, connVars, scriptVars>>

\* migrate(), lines 425-427 and 435-443: the loop; the lookup before
\* applyMigration; past the last unit the run ends with exit status 0
ConcLoop ==
  /\ \E r \in Runners :
       /\ racer[r].pc = "m_loop"
       /\ IF racer[r].i > Len(MIGRATIONS)
            THEN racer' = [racer EXCEPT ![r].pc = "done", ![r].exitCode = 0]
            ELSE \E ok \in BOOLEAN :
                   racer' =
                     IF ok
                       THEN LET v == MIGRATIONS[racer[r].i].version
                                wasApplied ==
                                  isMigrationApplied(schema_migrations, v)
                            IN [racer EXCEPT
                                  ![r].pc = "a_lookup",
                                  ![r].wasApplied = wasApplied.applied,
                                  ![r].observed =
                                     IF wasApplied.applied THEN @
                                                           ELSE @ \cup {v}]
                       ELSE [racer EXCEPT ![r].pc = "done",
                                          ![r].error = "store",
                                          ![r].exitCode = 1]
  /\ UNCHANGED <<MIGRATIONS, files, tableExists, schema_migrations, schema, tx,
                 run, prev, runs, edits, appiVars>>
  /\ UNCHANGED <<relVars, pgVars, connVars, scriptVars>>

\* applyMigration, lines 350-377: read the file, digest, lookup, compare;
\* BEGIN when the unit is not applied; lines 430-432 when it is a skip
ConcApplyLookup ==
  /\ \E r \in Runners :
       /\ racer[r].pc = "a_lookup"
       /\ LET m        == MIGRATIONS[racer[r].i]
              checksum == generateChecksum(files[racer[r].i])
              res      == isMigrationApplied(schema_migrations, m.version)
          IN \E ok \in BOOLEAN :
               racer' =
                 IF ~ok
                   THEN [racer EXCEPT ![r].pc = "done", ![r].error = "store",
                                      ![r].exitCode = 1]
                 ELSE IF res.applied
                   THEN IF ChecksumMatches(res.checksum, checksum)
                          THEN [racer EXCEPT
                                  ![r].pc = "m_loop", ![r].i = @ + 1,
                                  ![r].appliedCount =
                                     CountApplied(@, racer[r].wasApplied)]
                          ELSE [racer EXCEPT ![r].pc = "done",
                                             ![r].error = "drift",
                                             ![r].exitCode = 1]
                   ELSE [racer EXCEPT ![r].pc = "t_exec",
                                      ![r].checksum = checksum,
                                      ![r].tx = NoTx]
  /\ UNCHANGED <<MIGRATIONS, files, tableExists, schema_migrations, schema, tx,
                 run, prev, runs, edits, appiVars>>
  /\ UNCHANGED <<relVars, pgVars, connVars, scriptVars>>

\* migrate.ts 380: client.query(sqlContent)
ConcExec ==
  /\ \E r \in Runners :
       /\ racer[r].pc = "t_exec"
       /\ \E ok \in BOOLEAN :
            racer' =
              IF ok
                THEN [racer EXCEPT
                        ![r].pc = "t_insert",
                        ![r].tx.ddl = Append(@,
                           [version |-> MIGRATIONS[racer[r].i].version,
                            content |-> files[racer[r].i]])]
                ELSE [racer EXCEPT ![r].pc = "t_rollback",
                                   ![r].error = "store"]
  /\ UNCHANGED <<MIGRATIONS, files, tableExists, schema_migrations, schema, tx,
                 run, prev, runs, edits, appiVars>>
  /\ UNCHANGED <<relVars, pgVars, connVars, scriptVars>>

\* migrate.ts 383-391: INSERT INTO schema_migrations
ConcInsert ==
  /\ \E r \in Runners :
       /\ racer[r].pc = "t_insert"
       /\ LET m   == MIGRATIONS[racer[r].i]
              row == [version |-> m.version, description |-> m.description,
                      checksum |-> racer[r].checksum,
                      environment |-> environment,
                      applied_at |-> racer[r].now]
          IN /\ ~InsertWaits(r, m.version)
             /\ \E ok \in BOOLEAN :
                  racer' =
                    IF ~ok
                      THEN [racer EXCEPT ![r].pc = "t_rollback",
                                         ![r].error = "store"]
                    ELSE IF UniqueViolation(
                              schema_migrations \cup racer[r].tx.rows,
                              m.version)
                      THEN [racer EXCEPT ![r].pc = "t_rollback",
                                         ![r].error = "unique"]
                      ELSE [racer EXCEPT ![r].pc = "t_commit",
                                         ![r].tx.rows = @ \cup {row}]
  /\ UNCHANGED <<MIGRATIONS, files, tableExists, schema_migrations, schema, tx,
                 run, prev, runs, edits, appiVars>>
  /\ UNCHANGED <<relVars, pgVars, connVars, scriptVars>>

\* connection.ts 231-234: COMMIT; applyMigration returns and the unit is
\* counted (migrate.ts 430-432)
ConcCommit ==
  /\ \E r \in Runners :
       /\ racer[r].pc = "t_commit"
       /\ \E ok \in BOOLEAN :
            IF ok
              THEN LET c == Commit(schema_migrations, schema, racer[r].tx)
                   IN  /\ schema_migrations' = c.rows
                       /\ schema' = c.schema
                       /\ racer' = [racer EXCEPT
                             ![r].pc = "m_loop", ![r].i = @ + 1,
                             ![r].tx = NoTx,
                             ![r].committed =
                                @ \cup {MIGRATIONS[racer[r].i].version},
                             ![r].appliedCount =
                                CountApplied(@, racer[r].wasApplied)]
              ELSE /\ racer' = [racer EXCEPT ![r].pc = "t_rollback",
                                             ![r].error = "store"]
                   /\ UNCHANGED <<schema_migrations, schema>>
  /\ UNCHANGED <<MIGRATIONS, files, tableExists, tx, run, prev, runs, edits,
                 appiVars>>
  /\ UNCHANGED <<relVars, pgVars, connVars, scriptVars>>

\* connection.ts 235-242: ROLLBACK, rethrow; migrate.ts 438-440: catch,
\* process.exit(1)
ConcRollback ==
  /\ \E r \in Runners :
       /\ racer[r].pc = "t_rollback"
       /\ LET c == Rollback(schema_migrations, schema, racer[r].tx)
          IN  /\ schema_migrations' = c.rows
              /\ schema' = c.schema
       /\ racer' = [racer EXCEPT ![r].pc = "done", ![r].tx = NoTx,
                                 ![r].exitCode = 1]
  /\ UNCHANGED <<MIGRATIONS, files, tableExists, tx, run, prev, runs, edits,
                 appiVars>>
  /\ UNCHANGED <<relVars, pgVars, connVars, scriptVars>>

ConcNext ==
  \/ ConcStart
  \/ ConcLoop
  \/ ConcApplyLookup
  \/ ConcExec
  \/ ConcInsert
  \/ ConcCommit
  \/ ConcRollback

(***************************************************************************)
(* Specifications.  The two subsystems share no state: Spec runs the       *)
(* migration engine, ReleaseSpec the release manifest.                     *)
(***************************************************************************)
Init == MigInit /\ RelInit /\ PgInit

Next == MigNext

Spec == Init /\ [][Next]_vars

\* migrate() run by the processes of Runners side by side
ConcurrentSpec == Init /\ [][ConcNext]_vars

\* the catalog of server/database/migrations (one unit, version 001)
ReleaseInit ==
  /\ RelInit
  /\ MigInit
  /\ PgInit
  /\ MIGRATIONS = <<Unit("001")>>

ReleaseNext == RelNext

ReleaseSpec == ReleaseInit /\ [][ReleaseNext]_vars

\* RaceSpec: the release tooling when create-release.sh may also be run
\* while a production promotion is under way
RaceNext ==
  \/ CreateReleaseDuringPromotion
  \/ RelNext

RaceSpec == ReleaseInit /\ [][RaceNext]_vars

\* the command line: every run is an invocation of main(), over the catalog
\* of the repository or over that catalog with a second unit added
MainInit ==
  /\ Init
  /\ MIGRATIONS \in {<<Unit("001")>>, <<Unit("001"), Unit("002")>>}

MainSpec == MainInit /\ [][MainNext]_vars

\* the connection manager under any interleaving of its callers
PoolInit ==
  /\ Init
  /\ MIGRATIONS = <<Unit("001")>>

PoolSpec == PoolInit /\ [][PgNext]_vars

(***************************************************************************)
(* ConnectSpec: calls of initializeConnections().  Every awaited promise   *)
(* settles (the pool's connectionTimeoutMillis and the Redis client's      *)
(* maxRetriesPerRequest bound a health check; the backoff is a timer), so  *)
(* a step of a call in progress is eventually taken.                       *)
(***************************************************************************)
ConnectInit ==
  /\ Init
  /\ MIGRATIONS = <<Unit("001")>>

ConnectSpec == ConnectInit /\ [][BootNext]_vars /\ WF_vars(BootStep)

(***************************************************************************)
(* StatusSpec: the status command over any tracking store.  The database   *)
(* outlives the catalog revision that filled it: the table may be missing, *)
(* and it may hold records of units of the current catalog or of a unit    *)
(* ("000") that a later revision of the catalog no longer lists.           *)
(***************************************************************************)
StoreVersions == <<"000", "001", "002">>

\* the record applyMigration inserts for a version whose file held `content`
StoredRow(version, content) ==
  [version |-> version, description |-> Description(version),
   checksum |-> generateChecksum(content), environment |-> environment,
   applied_at |-> 0]

\* tracking tables with at most one record a version (version is UNIQUE)
Stores ==
  {rows \in SUBSET {StoredRow(v, c) : v \in Range(StoreVersions), c \in Contents} :
     \A r1, r2 \in rows : r1.version = r2.version => r1 = r2}

\* the schema changes that produced the records of `rows`, in version order
SchemaOf(rows) ==
  LET recorded == SelectSeq(StoreVersions, LAMBDA v : v \in RowVersions(rows))
  IN  [k \in DOMAIN recorded |->
         [version |-> recorded[k],
          content |-> (CHOOSE r \in rows : r.version = recorded[k]).checksum[2]]]

StatusInit ==
  /\ RelInit
  /\ PgInit
  /\ MIGRATIONS \in Catalogs
  /\ files = [i \in DOMAIN MIGRATIONS |-> Authored]
  /\ tableExists \in BOOLEAN
  /\ schema_migrations \in Stores
  /\ ~tableExists => schema_migrations = {}
  /\ schema = SchemaOf(schema_migrations)
  /\ tx = NoTx
  /\ run = NoRun
  /\ prev = Summary(NoRun)
  /\ runs = 0
  /\ edits = 0
  /\ privacy_policy_versions = <<>>
  /\ appi_audit_events = <<>>
  /\ racer = [r \in Runners |-> NoRacer]

StatusNext ==
  \/ StartStatus
  \/ StatusHealthCheck
  \/ StatusCreateTable
  \/ StatusQuery
  \/ StatusCatch
  \/ StatusFinally

StatusSpec == StatusInit /\ [][StatusNext]_vars

(***************************************************************************)
(* Properties of the migration engine.                                     *)
(***************************************************************************)
UniqueVersions ==
  \A i, j \in DOMAIN MIGRATIONS :
    MIGRATIONS[i].version = MIGRATIONS[j].version => i = j

\* no recorded checksum differs from the digest of the unit's current content
DriftFree(rows) ==
  \A i \in DOMAIN MIGRATIONS : \A r \in rows :
    r.version = MIGRATIONS[i].version => r.checksum = generateChecksum(files[i])

\* number of times the content of catalog unit i was executed in a run
Executions(events, i) ==
  Cardinality({k \in DOMAIN events : events[k].kind = "exec" /\ events[k].idx = i})

\* `prev` and `run` are two migrate runs in sequence by one runner, over a
\* catalog of distinct versions, from a drift-free store, with no file edit
\* and no store failure in either run, and the second run has ended
TwoMigrateRuns ==
  /\ run.cmd = "migrate" /\ run.pc = "done"
  /\ prev.cmd = "migrate"
  /\ UniqueVersions
  /\ prev.editsAtStart = edits
  /\ DriftFree(prev.before)
  /\ ~prev.storeFailure /\ ~run.storeFailure

SecondRunIsNoOp ==
  /\ prev.error = "none" /\ run.error = "none"
  /\ run.appliedCount = 0
  /\ run.before = prev.after
  /\ run.after = prev.after /\ run.afterSchema = prev.afterSchema
  /\ schema_migrations = prev.after /\ schema = prev.afterSchema

\* C1 as stated: running migrate twice in sequence executes the content of
\* EVERY catalog unit exactly once over the two runs, the second run reports
\* zero newly applied units and leaves the tracking store as the first run
\* left it.
C1_ExecutedOnceOverTwoRuns ==
  TwoMigrateRuns =>
    /\ SecondRunIsNoOp
    /\ \A i \in DOMAIN MIGRATIONS :
         Executions(prev.execd, i) + Executions(run.trace, i) = 1

\* C1 amended: over the two runs the content of every unit that had no
\* tracking record before the first run is executed exactly once (in the
\* first run), the content of a unit already recorded is not executed at
\* all, so that every unit has been executed exactly once in the history of
\* the store; the second run reports zero and leaves the store unchanged.
C1_MigrateTwice ==
  TwoMigrateRuns =>
    /\ SecondRunIsNoOp
    /\ \A i \in DOMAIN MIGRATIONS :
         /\ Executions(prev.execd, i) + Executions(run.trace, i) =
              IF MIGRATIONS[i].version \in RowVersions(prev.before)
                THEN 0 ELSE 1
         /\ Executions(run.trace, i) = 0
         /\ SchemaCount(schema, MIGRATIONS[i].version) = 1

C1_Witness ==
  /\ TwoMigrateRuns
  /\ prev.appliedCount > 0
  /\ prev.before # {}

\* C2: when migrate reaches a unit whose version has a tracking record whose
\* checksum differs from the digest of the unit's current content, the run
\* fails with the drift error at that unit, the unit's content is not
\* executed, and the record found is still in the table, unchanged and alone
\* for its version.
C2_DriftDetected ==
  (/\ run.cmd = "migrate"
   /\ run.found # NoRow
   /\ run.found.checksum # generateChecksum(run.sqlContent))
  =>
    /\ run.error = "drift"
    /\ run.pc \in {"m_catch", "done"}
    /\ run.failedAt = run.i
    /\ run.pc = "done" => run.exitCode = 1
    /\ Executions(run.trace, run.i) = 0
    /\ run.found \in schema_migrations
    /\ \A r \in schema_migrations :
         r.version = run.found.version => r = run.found
    /\ tx = NoTx

C2_Witness ==
  /\ run.cmd = "migrate" /\ run.pc = "done" /\ run.error = "drift"
  /\ run.found # NoRow
  /\ run.found.checksum # generateChecksum(run.sqlContent)
  /\ edits > 0

\* C3: applying a pending unit is atomic.  In every committed state of the
\* store a version's schema change is present iff its tracking record is
\* present, and the record's checksum is the digest of the content that was
\* executed; when the transaction of a unit fails (content execution, insert
\* or commit), nothing of it is left: the unit has neither a schema change
\* nor a record.
C3_AtomicApply ==
  /\ RowVersions(schema_migrations) = {schema[k].version : k \in DOMAIN schema}
  /\ \A r \in schema_migrations :
       \E k \in DOMAIN schema :
         /\ schema[k].version = r.version
         /\ r.checksum = generateChecksum(schema[k].content)
  /\ (run.cmd = "migrate" /\ run.error = "tx") =>
       /\ MIGRATIONS[run.failedAt].version \notin RowVersions(schema_migrations)
       /\ SchemaCount(schema, MIGRATIONS[run.failedAt].version) = 0
       /\ tx = NoTx

C3_Witness ==
  /\ run.cmd = "migrate" /\ run.pc = "done" /\ run.error = "tx"
  /\ Executions(run.trace, run.failedAt) = 1
  /\ CountEvents(run.trace, "record", run.failedAt) = 1
  /\ CountEvents(run.trace, "rollback", run.failedAt) = 1

\* C4: within one migrate run the units are processed strictly in catalog
\* order (positions 1, 2, ... without gap or return), and once a unit has
\* failed no later unit is looked up, executed or recorded in that run.
C4_CatalogOrder ==
  run.cmd = "migrate" =>
    /\ \A p, q \in DOMAIN run.trace :
         p < q => run.trace[p].idx <= run.trace[q].idx
    /\ \A p \in DOMAIN run.trace : \A j \in 1..run.trace[p].idx :
         \E q \in 1..p : run.trace[q].idx = j /\ run.trace[q].kind = "lookup"
    /\ run.error # "none" =>
         \A p \in DOMAIN run.trace : run.trace[p].idx <= run.failedAt

C4_Witness ==
  /\ run.cmd = "migrate" /\ run.pc = "done"
  /\ run.error \in {"tx", "drift"}
  /\ run.failedAt >= 1
  /\ run.failedAt < Len(MIGRATIONS)

\* C5: when a migrate run aborts at catalog position k, the store after the
\* run is the store before the run plus exactly the units before k that were
\* pending: their rows and schema changes, committed in this run, stay, and
\* nothing of unit k or of a later unit is written.
C5_AbortKeepsEarlierUnits ==
  (/\ run.cmd = "migrate" /\ run.pc = "done"
   /\ run.error \in {"tx", "drift"}
   /\ run.failedAt >= 1)
  =>
    LET k       == run.failedAt
        earlier == {MIGRATIONS[j].version : j \in 1..(k - 1)}
        added   == schema_migrations \ run.before
        n0      == Len(run.beforeSchema)
    IN  /\ run.before \subseteq schema_migrations
        /\ RowVersions(added) = earlier \ RowVersions(run.before)
        /\ Cardinality(added) = Cardinality(RowVersions(added))
        /\ \A r \in added : r.applied_at = run.now
        /\ Len(schema) = n0 + Cardinality(added)
        /\ SubSeq(schema, 1, n0) = run.beforeSchema
        /\ {schema[j].version : j \in (n0 + 1)..Len(schema)} = RowVersions(added)
        /\ run.appliedCount = Cardinality(added)
        /\ tx = NoTx

C5_Witness ==
  /\ run.cmd = "migrate" /\ run.pc = "done"
  /\ run.error = "tx"
  /\ run.failedAt = 2
  /\ CountEvents(run.trace, "record", 2) = 1
  /\ schema_migrations # run.before

\* C6: across any sequence of migrate, status and init-appi runs the tracking
\* table is append-only with unique versions: no step removes or changes a
\* row, no two rows share a version, and the content of a version is never
\* executed a second time (the schema log only grows, one entry a version).
C6_AppendOnly ==
  /\ [][/\ schema_migrations \subseteq schema_migrations'
        /\ Len(schema) <= Len(schema')
        /\ SubSeq(schema', 1, Len(schema)) = schema]_vars
  /\ [](/\ \A r1, r2 \in schema_migrations :
             r1.version = r2.version => r1 = r2
        /\ \A v \in Versions : SchemaCount(schema, v) <= 1)

C6_Witness ==
  /\ run.cmd = "migrate" /\ run.pc = "done" /\ run.error = "none"
  /\ prev.cmd \in {"status", "init-appi"}
  /\ prev.before # {}
  /\ runs = 3

(***************************************************************************)
(* Properties of the release manifest.                                     *)
(***************************************************************************)
StagingRecorded(m) == m.environments.staging.deployed_at # Unset

ProductionRecorded(m) == m.environments.production.deployed_at # Unset

\* the last workflow run is a production promotion that succeeded, and the
\* manifest still carries the record it wrote
ProductionPromoted ==
  /\ promo.kind = "production" /\ promo.outcome = "deployed"
  /\ manifest.environments.production.deployed_at = Time(promo.now)

\* C7: staging-first.  In every reachable manifest, production.deployed_at is
\* populated only if staging.deployed_at is populated by a staging promotion
\* of that same manifest; and a production promotion started while
\* staging.deployed_at is unset is rejected, whether or not confirm_version
\* is right, without deploying and without recording production metadata.
C7_StagingFirst ==
  /\ ProductionRecorded(manifest) =>
       /\ StagingRecorded(manifest)
       /\ validated # NoImages
  /\ (promo.kind = "production" /\ ~StagingRecorded(promo.manifestAtStart)) =>
       /\ promo.pc = "done"
       /\ promo.outcome \in {"StagingNotDone", "VersionMismatch"}
       /\ promo.confirm = promo.manifestAtStart.version =>
            promo.outcome = "StagingNotDone"
       /\ ~promo.deployed
       /\ ~ProductionRecorded(manifest)

C7_Witness ==
  /\ promo.kind = "production" /\ promo.pc = "done"
  /\ promo.outcome = "StagingNotDone"
  /\ promo.confirm = manifest.version
  /\ manifest = promo.manifestAtStart
  /\ stagingApp # NoImages

C9_ProductionShipsWhatStagingValidated ==
  ProductionPromoted =>
    \A s \in Services : productionApp[s] = validated[s]

\* C10: a production promotion whose confirm_version differs from the
\* manifest's version ends rejected with the version mismatch, performs no
\* deployment, and the step that rejects it leaves the manifest and both
\* applications unchanged.
C10_VersionMismatchRejected ==
  /\ [](promo.kind = "production"
          /\ promo.confirm # promo.manifestAtStart.version
        => /\ promo.pc = "done"
           /\ promo.outcome = "VersionMismatch"
           /\ ~promo.deployed
           /\ promo.images = NoImages)
  /\ [][(/\ promo' # promo
         /\ promo'.kind = "production"
         /\ promo'.confirm # promo'.manifestAtStart.version)
        => /\ manifest' = manifest
           /\ productionApp' = productionApp
           /\ stagingApp' = stagingApp]_vars

C10_Witness ==
  /\ promo.kind = "production" /\ promo.pc = "done"
  /\ promo.outcome = "VersionMismatch"
  /\ StagingRecorded(promo.manifestAtStart)
  /\ manifest = promo.manifestAtStart

\* a step of create-release.sh (the only action that counts a release)
CreateStep == releases' = releases + 1

\* C11: creating a manifest for the version that manifest.json already holds
\* fails and leaves the manifest, its services and its environments metadata,
\* unchanged: a create step never ends with a manifest of the same version
\* and different content.
C11_CreateExistingVersionFails ==
  [][(CreateStep /\ manifest'.version = manifest.version)
       => manifest' = manifest]_vars

\* C12: once a manifest is created, every later operation (staging promotion,
\* production promotion) leaves the services entries (sha, image, tag of
\* every service) unchanged and writes only fields under environments.
C12_ServicesImmutableAfterCreate ==
  [][~CreateStep =>
       /\ manifest'.version = manifest.version
       /\ manifest'.services = manifest.services]_vars

(***************************************************************************)
(* Properties of the status command.                                       *)
(***************************************************************************)
CatalogVersions == {MIGRATIONS[i].version : i \in DOMAIN MIGRATIONS}

\* a status run that printed its report
StatusReported == run.cmd = "status" /\ run.pc \in {"s_finally", "done"}
                    /\ run.error = "none"

AppliedReported == RowVersions(run.statusApplied)

PendingReported == {run.statusPending[k].version : k \in DOMAIN run.statusPending}

\* C13: for any tracking-store state, including one holding records whose
\* versions are not in the catalog, the applied and pending sets reported by
\* status are disjoint and their union is exactly the set of catalog units.
C13_StatusPartitionsCatalog ==
  StatusReported =>
    /\ AppliedReported \cap PendingReported = {}
    /\ AppliedReported \cup PendingReported = CatalogVersions

\* C14: status is a pure read.  From every store state, including one where
\* the tracking table does not exist yet, no step of a status run changes the
\* persisted store: the tables that exist, the tracking records, the schema.
C14_StatusIsPureRead ==
  [][(run.cmd = "status" /\ run'.cmd = "status")
       => /\ tableExists' = tableExists
          /\ schema_migrations' = schema_migrations
          /\ schema' = schema]_vars

(***************************************************************************)
(* Properties of the command line.                                         *)
(***************************************************************************)
\* the gate has returned and its inputs are still at hand
GateReturned ==
  /\ run.main /\ run.gate # "none"
  /\ run.pc = "main_switch" \/ run.gate = "Abort"

\* the answer is the keyword with nothing but whitespace before and after it
KeywordTyped(answer, keyword) ==
  \E i \in 0..Len(answer) :
    /\ i + Len(keyword) <= Len(answer)
    /\ SubSeq(answer, i + 1, i + Len(keyword)) = keyword
    /\ \A k \in 1..i : answer[k] \in Whitespace
    /\ \A k \in (i + Len(keyword) + 1)..Len(answer) : answer[k] \in Whitespace

\* C15: the confirmation gate returns Proceed without prompting whenever the
\* run is automated (CI or AUTO_CONFIRM) or the environment does not require
\* confirmation; otherwise it prompts exactly once and returns Proceed iff
\* the answer, trimmed of whitespace, is the keyword (case-sensitively), and
\* Abort for every other answer, after which the run is over: no retry.
C15_ConfirmationGate ==
  GateReturned =>
    IF run.context.isCI \/ run.context.autoConfirm
         \/ ~run.context.requiresConfirmation
      THEN run.gate = "Proceed" /\ run.prompts = 0
      ELSE /\ run.prompts = 1
           /\ run.gate = "Proceed" <=>
                KeywordTyped(run.answer, run.context.confirmationKeyword)
           /\ run.gate = "Abort" <=>
                ~KeywordTyped(run.answer, run.context.confirmationKeyword)
           /\ run.gate = "Abort" => run.pc = "done"

C15_Witness ==
  /\ GateReturned
  /\ run.gate = "Proceed" /\ run.prompts = 1
  /\ run.answer # run.context.confirmationKeyword
  /\ schema_migrations # {}

\* C16: when the gate returns Abort the process exits non-zero having done
\* no store operation: no pool is created, hence no connection acquired, no
\* table created, no unit executed, no record written; and no step of a
\* gated command touches the store before the gate has returned Proceed.
C16_AbortTouchesNothing ==
  /\ [](run.main /\ run.gate = "Abort" =>
          /\ run.pc = "done" /\ run.exitCode = 1
          /\ run.pool = "none"
          /\ run.trace = <<>>
          /\ schema_migrations = run.before /\ schema = run.beforeSchema
          /\ tx = NoTx)
  /\ [][(/\ run'.main
         /\ run'.gate # "Proceed"
         /\ run'.cmd = "migrate" \/ run'.context.requiresConfirmation)
        => /\ run'.pool = "none"
           /\ UNCHANGED <<tableExists, schema_migrations, schema, tx,
                          privacy_policy_versions, appi_audit_events>>]_vars

C16_Witness ==
  /\ run.main /\ run.gate = "Abort" /\ run.pc = "done"
  /\ run.cmd = "migrate"
  /\ run.prompts = 1
  /\ prev.cmd = "status" /\ prev.error = "none"
  /\ tableExists /\ schema_migrations = {}

\* C17: a main('migrate') invocation in which the store is reachable and
\* migrate() applied or skipped every catalog unit without error ends in
\* exit code 0.
C17_MigrateCommandExitsZero ==
  (/\ run.main /\ run.cmd = "migrate" /\ run.pc = "done"
   /\ run.migrated /\ ~run.storeFailure)
  => run.exitCode = 0

\* the errors that are fatal to a command run
FatalErrors ==
  {"config", "declined", "unhealthy", "drift", "tx", "query", "pool", "usage"}

\* C18: every fatal error of a command run ends the process with a non-zero
\* exit code: an unset or invalid environment selector, a declined
\* confirmation, an unhealthy store connection, drift and a transaction
\* failure each end in exit code 1, never 0; and once the error is raised
\* the run goes to its exit without another store operation.
C18_FatalErrorsExitNonZero ==
  run.main =>
    /\ run.pc = "done" =>
         /\ (\/ run.selector # "local"
             \/ run.gate = "Abort"
             \/ run.error \in FatalErrors) => run.exitCode = 1
         /\ run.exitCode = 0 =>
              /\ run.selector = "local" /\ run.error = "none"
              /\ run.gate # "Abort"
    /\ run.selector # "local" => run.pc = "done" /\ run.error = "config"
    /\ run.error \in {"unhealthy", "drift", "tx"} =>
         run.pc \in {"m_catch", "s_catch", "done"}

C18_Witness ==
  /\ run.main /\ run.pc = "done"
  /\ run.error = "drift"
  /\ run.exitCode = 1
  /\ prev.cmd = "migrate" /\ prev.appliedCount > 0

\* C19: on every exit path of the migrate and status commands, the error
\* paths included (unhealthy connection, drift, transaction failure), the
\* pool of the migrator has been closed when the process terminates.
C19_PoolClosedOnEveryExit ==
  (run.cmd \in {"migrate", "status"} /\ run.pc = "done") => run.pool # "open"

(***************************************************************************)
(* Properties of the connection manager.                                   *)
(***************************************************************************)
\* C20: every pool client acquired by query() or transaction() is released
\* exactly once on every exit path of the call, whether the statement, the
\* callback, BEGIN, COMMIT or ROLLBACK succeeds or throws: a call that has
\* ended released its client once if it acquired one and never otherwise,
\* the clients checked out are those of the calls still running, and after
\* any sequence of completed calls no client is checked out.
C20_ClientsReleasedOnce ==
  /\ \A c \in Callers :
       /\ call[c].releases <= 1
       /\ call[c].pc = "done" =>
            call[c].releases = IF call[c].acquired THEN 1 ELSE 0
       /\ call[c].pc # "done" => call[c].releases = 0
       /\ call[c].acquired <=>
            (call[c].pc \in Held \/ (call[c].pc = "done" /\ call[c].releases = 1))
  /\ checkedOut = Cardinality({c \in Callers : call[c].pc \in Held})
  /\ NoCallRunning => checkedOut = 0

C20_Witness ==
  /\ NoCallRunning
  /\ calls = MaxCalls
  /\ \E c \in Callers :
       call[c].kind = "transaction" /\ call[c].outcome = "threw"
         /\ call[c].acquired
  /\ \E c \in Callers :
       call[c].kind = "query" /\ call[c].outcome = "threw" /\ ~call[c].acquired
  /\ pgPool = "closed"

(***************************************************************************)
(* Properties of environment resolution.                                   *)
(***************************************************************************)
\* the selectors that name a fully configured environment
Configured == {"local"}

\* C21: environment resolution fails with a configuration error for every
\* selector that is missing or is not a fully configured environment (the
\* accepted names dev and prod included), and it fails before any store
\* connection is opened or any store operation is performed: the run is over
\* with exit code 1, no pool was created, nothing was looked up, and the
\* step that resolves the environment leaves the store unchanged.
C21_UnconfiguredSelectorFailsEarly ==
  /\ [](run.main /\ run.selector \notin Configured =>
          /\ run.pc = "done" /\ run.error = "config" /\ run.exitCode = 1
          /\ run.pool = "none"
          /\ run.trace = <<>>
          /\ run.gate = "none" /\ run.prompts = 0
          /\ schema_migrations = run.before /\ schema = run.beforeSchema)
  /\ [][(run'.main /\ run'.selector \notin Configured) =>
          UNCHANGED <<tableExists, schema_migrations, schema, tx,
                      privacy_policy_versions, appi_audit_events>>]_vars

C21_Witness ==
  /\ run.main /\ run.selector = "dev"
  /\ run.pc = "done" /\ run.error = "config"
  /\ prev.cmd = "migrate" /\ prev.appliedCount > 0
  /\ schema_migrations # {}

(***************************************************************************)
(* Properties of the catalog and of the tracking table.                    *)
(***************************************************************************)
\* C22: a catalog holding two units of the same version is rejected when it
\* is loaded: a migrate run over such a catalog looks up, executes and
\* records no unit, writes nothing to the store, and does not end without an
\* error.
C22_DuplicateVersionRejectedAtLoad ==
  (run.cmd = "migrate" /\ ~UniqueVersions) =>
    /\ run.trace = <<>>
    /\ schema_migrations = run.before /\ schema = run.beforeSchema
    /\ (run.pc = "done" => run.error # "none")

\* a step in which createMigrationsTable() was called and returned
CreateTableReturned ==
  \/ run.pc = "m_create" /\ run'.pc = "m_loop"
  \/ run.pc = "s_create" /\ run'.pc = "s_query"

\* C23: creating the tracking table is idempotent: a call leaves the table in
\* existence; when the table already exists the call keeps every record (a
\* no-op on the records), when it does not the table starts empty; the schema
\* log is untouched; and in every reachable store a second call yields the
\* store the first call yields.
C23_CreateTableIdempotent ==
  /\ [](LET once  == createMigrationsTable(tableExists, schema_migrations)
            twice == createMigrationsTable(once.exists, once.rows)
        IN  /\ twice = once
            /\ tableExists => once = [exists |-> TRUE, rows |-> schema_migrations])
  /\ [][CreateTableReturned =>
          /\ tableExists'
          /\ schema_migrations' = IF tableExists THEN schema_migrations ELSE {}
          /\ schema' = schema]_vars

\* the table was created by an earlier run, which recorded units in it, and
\* createMigrationsTable() has been called again
C23_Witness ==
  /\ run.cmd = "status" /\ run.pc = "s_query"
  /\ prev.cmd = "migrate" /\ prev.appliedCount > 0
  /\ tableExists /\ schema_migrations # {}
  /\ schema_migrations = run.before

\* the positions in the schema log of the changes committed by the current
\* run for `version`
ExecutedByRun(version) ==
  {k \in (Len(run.beforeSchema) + 1)..Len(schema) : schema[k].version = version}

\* C24: for every pending unit a migrate run applies (its transaction
\* committed), the store afterwards holds exactly one record for that
\* version; the record was inserted by this run, its checksum is the digest
\* of the content the run executed and its environment is the run's.  At the
\* end of each loop iteration and when the run ends without error, the
\* reported count equals the number of records the run inserted.
C24_AppliedUnitsRecordedAndCounted ==
  run.cmd = "migrate" =>
    /\ \A i \in DOMAIN MIGRATIONS :
         CountEvents(run.trace, "commit", i) > 0 =>
           LET v    == MIGRATIONS[i].version
               recs == {r \in schema_migrations : r.version = v}
           IN  /\ Cardinality(recs) = 1
               /\ Cardinality(ExecutedByRun(v)) = 1
               /\ \A r \in recs : \A k \in ExecutedByRun(v) :
                    /\ r \notin run.before
                    /\ r.checksum = generateChecksum(schema[k].content)
                    /\ r.environment = environment
    /\ (run.pc = "m_loop" \/ (run.pc = "done" /\ run.error = "none")) =>
         /\ run.appliedCount = Cardinality(schema_migrations \ run.before)
         /\ run.appliedCount =
              Cardinality({i \in DOMAIN MIGRATIONS :
                             CountEvents(run.trace, "commit", i) > 0})

\* a run that applied one unit and skipped another, after a file was edited
\* and its new content executed
C24_Witness ==
  /\ run.cmd = "migrate" /\ run.pc = "done" /\ run.error = "none"
  /\ run.appliedCount = 1 /\ Len(MIGRATIONS) = 2
  /\ run.before # {}
  /\ \E r \in schema_migrations \ run.before : r.checksum = generateChecksum("B")

(***************************************************************************)
(* Properties of initializeConnections().                                  *)
(***************************************************************************)
\* C25: a call initializeConnections(retries) with retries >= 1 makes at most
\* `retries` health-check attempts; no attempt follows one that found both
\* PostgreSQL and Redis healthy, and the call returns exactly when its last
\* attempt found both healthy; it fails with an error exactly after
\* `retries` failed attempts; and it always terminates.
C25_BoundedRetries ==
  /\ [](boot.retries >= 1 =>
          /\ Len(boot.health) <= boot.retries
          /\ \A k \in 1..(Len(boot.health) - 1) : ~AllHealthy(boot.health[k])
          /\ (boot.pc = "done" /\ boot.outcome = "returned") <=>
               (boot.health # <<>> /\ AllHealthy(boot.health[Len(boot.health)]))
          /\ (boot.pc = "done" /\ boot.outcome = "threw") <=>
               /\ Len(boot.health) = boot.retries
               /\ ~AllHealthy(boot.health[Len(boot.health)])
               /\ boot.pc \notin {"catch"}
          /\ boot.pc = "done" => boot.outcome \in {"returned", "threw"})
  /\ [](boot.retries >= 1 => <>(boot.pc = "done"))

\* a call that failed twice, backed off 2 s and 4 s, and returned on its
\* third and last attempt
C25_Witness ==
  /\ boot.retries = 3 /\ boot.pc = "done" /\ boot.outcome = "returned"
  /\ Len(boot.health) = 3 /\ boot.slept = 6000
  /\ ~boot.health[1].postgresql /\ ~boot.health[2].redis

(***************************************************************************)
(* Properties of the connection manager's audit log and transactions.      *)
(***************************************************************************)
\* the statements a call sends on its client, by the step that failed
StatementsOf(kind, failed) ==
  IF failed = "connect" THEN <<>>
  ELSE IF kind \in {"query", "healthCheck"} THEN <<"QUERY">>
  ELSE IF failed = "none" THEN <<"BEGIN", "COMMIT">>
  ELSE IF failed = "commit" THEN <<"BEGIN", "COMMIT", "ROLLBACK">>
  ELSE <<"BEGIN", "ROLLBACK">>

AuditFailures == {"no table", "insert error", "pool error"}

\* C26: a failure of audit-log emission never changes the outcome of the
\* operation that emitted it: no call fails with an audit error, and a call
\* that has ended returned exactly when none of its own steps failed and
\* sent exactly the statements its own steps determine, whatever became of
\* its audit events.
C26_AuditFailuresAreNotFatal ==
  \A c \in Callers :
    /\ call[c].failed \in {"none", "connect", "statement", "begin",
                           "callback", "commit"}
    /\ (call[c].pc = "done" /\ call[c].kind # "none") =>
         /\ call[c].outcome = IF call[c].failed = "none" THEN "returned"
                                                         ELSE "threw"
         /\ call[c].issued = StatementsOf(call[c].kind, call[c].failed)
         /\ call[c].acquired <=> call[c].failed # "connect"
         /\ call[c].releases = IF call[c].acquired THEN 1 ELSE 0

\* a transaction that committed and returned although each of its three
\* audit events failed in a different way, and a query that returned
\* although its audit events failed
C26_Witness ==
  \E c, d \in Callers :
    /\ call[c].kind = "transaction" /\ call[c].pc = "done"
    /\ call[c].outcome = "returned" /\ call[c].audit = AuditFailures
    /\ call[d].kind = "query" /\ call[d].pc = "done"
    /\ call[d].outcome = "returned" /\ call[d].audit \subseteq AuditFailures

\* BEGIN and the callback both completed without error
Began(c) == call[c].failed \in {"none", "commit"}

Issued(c, statement) == \E k \in DOMAIN call[c].issued : call[c].issued[k] = statement

\* C30 as stated: a transaction() call that has ended issued COMMIT exactly
\* when BEGIN and the callback completed without error; in every other case
\* it issued ROLLBACK, never COMMIT, and the caller received an error; and no
\* call both committed and rolled back.
C30_CommitOrRollback ==
  \A c \in Callers :
    (call[c].kind = "transaction" /\ call[c].pc = "done") =>
      /\ Issued(c, "COMMIT") <=> Began(c)
      /\ ~Began(c) => /\ Issued(c, "ROLLBACK")
                      /\ ~Issued(c, "COMMIT")
                      /\ call[c].outcome = "threw"
      /\ ~(call[c].outcome = "returned" /\ Issued(c, "ROLLBACK"))

\* C30, amended: the statement holds of the calls that acquired a client.  A
\* call that could not acquire one issues no statement at all and the caller
\* receives an error; a call whose COMMIT fails issues ROLLBACK after it and
\* the caller receives an error; a call whose COMMIT succeeded returns and
\* issues no ROLLBACK.
C30_CommitOrRollbackOnceAcquired ==
  \A c \in Callers :
    (call[c].kind = "transaction" /\ call[c].pc = "done") =>
      /\ Issued(c, "COMMIT") <=> (call[c].acquired /\ Began(c))
      /\ (call[c].acquired /\ ~Began(c)) =>
           /\ Issued(c, "ROLLBACK") /\ ~Issued(c, "COMMIT")
           /\ call[c].outcome = "threw"
      /\ ~call[c].acquired =>
           /\ call[c].issued = <<>> /\ call[c].outcome = "threw"
      /\ call[c].failed = "commit" =>
           /\ call[c].issued = <<"BEGIN", "COMMIT", "ROLLBACK">>
           /\ call[c].outcome = "threw"
      /\ call[c].outcome = "returned" <=> call[c].failed = "none"
      /\ ~(call[c].outcome = "returned" /\ Issued(c, "ROLLBACK"))

\* one transaction committed, one rolled back after its callback failed, and
\* one could not acquire a client
C30_Witness ==
  /\ NoCallRunning
  /\ \E c, d \in Callers :
       /\ call[c].kind = "transaction" /\ call[c].failed = "callback"
       /\ call[c].issued = <<"BEGIN", "ROLLBACK">>
       /\ call[d].kind = "transaction" /\ call[d].failed = "connect"
       /\ call[d].issued = <<>>

(***************************************************************************)
(* Properties of the promotion workflows and of create-release.            *)
(***************************************************************************)
\* a workflow step (not create-release) that changes the manifest
PromotionWrites == manifest' # manifest /\ ~CreateStep

\* the health step of a workflow reports a timeout
HealthTimesOut ==
  /\ promo.pc \in {"s_health", "p_health"}
  /\ promo'.health = "timeout"

C29_CreateReleaseWritesOrFails ==
  [][CreateStep =>
       LET a       == lastCreate'.args
           present == \A k \in 1..4 : a[k] # Blank
           given   == [s \in Services |->
                         IF s = "tachyon-api" THEN a[2]
                         ELSE IF s = "tachyon-workers" THEN a[3] ELSE a[4]]
       IN  /\ present =>
                /\ lastCreate'.status = 0
                /\ manifest'.version = a[1]
                /\ \A s \in Services :
                     /\ manifest'.services[s].sha = given[s]
                     /\ manifest'.services[s].tag = given[s]
                /\ ~StagingRecorded(manifest') /\ ~ProductionRecorded(manifest')
                /\ manifest'.environments.staging.deployed_by = ""
                /\ manifest'.environments.production.deployed_by = ""
                /\ manifest'.environments.production.approved_by = ""
           /\ ~present =>
                /\ lastCreate'.status # 0
                /\ manifest' = manifest]_vars

\* the script has just failed on an empty db SHA, run on a manifest that was
\* promoted to production, which still has its metadata
C29_Witness ==
  /\ lastCreate.status = 1 /\ lastCreate.args[4] = Blank
  /\ lastCreate.args[1] # Blank
  /\ ProductionRecorded(manifest)

(***************************************************************************)
(* More properties of initializeConnections().                             *)
(***************************************************************************)
\* C33: for every value of retries, zero and negative values included,
\* initializeConnections returns normally only if some attempt of the call
\* observed both PostgreSQL and Redis healthy.
C33_ReturnsOnlyWhenHealthy ==
  (boot.n > 0 /\ boot.pc = "done" /\ boot.outcome = "returned") =>
    \E k \in DOMAIN boot.health : AllHealthy(boot.health[k])

\* C34: the wait after failed attempt number k (k < retries) is 2^k seconds,
\* so the waits of a call are 2 s, 4 s, 8 s, ... and add up to 2^(k+1) - 2
\* seconds after k of them; a step that is not a backoff waits nothing, and
\* the call that raises the error after its final failed attempt has waited
\* only after the attempts before it.
C34_ExponentialBackoff ==
  /\ [][/\ boot.pc = "backoff" =>
             LET k == Len(boot.health)
             IN  /\ k = boot.attempt /\ k < boot.retries
                 /\ ~AllHealthy(boot.health[k])
                 /\ boot'.slept - boot.slept = (2 ^ k) * 1000
        /\ (boot.pc # "backoff" /\ boot'.n = boot.n) =>
             boot'.slept = boot.slept]_vars
  /\ [](/\ boot.pc \in {"test"} =>
             boot.slept = ((2 ^ boot.attempt) - 2) * 1000
        /\ (boot.pc = "done" /\ boot.outcome = "threw") =>
             boot.slept = ((2 ^ boot.retries) - 2) * 1000)

\* a call with four attempts allowed failed four times: it waited 2 s, 4 s
\* and 8 s, and nothing after the fourth failure
C34_Witness ==
  /\ boot.retries = 4 /\ boot.pc = "done" /\ boot.outcome = "threw"
  /\ Len(boot.health) = 4 /\ boot.slept = 14000

(***************************************************************************)
(* Properties of the initial health check.                                 *)
(***************************************************************************)
\* C35: when the initial health check of migrate or status reports the store
\* unhealthy, the run fails: it goes to its catch block and ends with an
\* error, having looked up and executed no unit; and from the report on no
\* step creates the tracking table or changes the tracking records or the
\* schema.
C35_UnhealthyStoreStopsRun ==
  /\ [](run.health = "unhealthy" =>
          /\ run.cmd \in {"migrate", "status"}
          /\ run.error = "unhealthy"
          /\ run.pc \in {"m_catch", "s_catch", "done"}
          /\ run.pc = "done" => run.exitCode = 1
          /\ run.trace = <<>> /\ run.appliedCount = 0
          /\ schema_migrations = run.before /\ schema = run.beforeSchema
          /\ tx = NoTx)
  /\ [][run'.health = "unhealthy" =>
          UNCHANGED <<tableExists, schema_migrations, schema, tx>>]_vars

\* a migrate run over a database without tracking table found it unhealthy
\* and ended; the table was not created
C35_Witness ==
  /\ run.cmd = "migrate" /\ run.health = "unhealthy" /\ run.pc = "done"
  /\ ~tableExists

(***************************************************************************)
(* Properties of initializeAPPIData().                                     *)
(***************************************************************************)
PolicyRows(version) ==
  Cardinality({k \in DOMAIN privacy_policy_versions :
                 privacy_policy_versions[k] = version})

\* C37: privacy_policy_versions never holds more than one row of version
\* v1.0.0, and holds exactly one once an initializeAPPIData run has ended
\* without error, however many have; appi_audit_events is append-only, and
\* the only step that adds to it is the audit insert of a run whose policy
\* insert succeeded, which adds exactly one row stamped with the run's
\* environment; a run whose policy insert fails adds no audit row.
C37_PolicyOnceAuditAppended ==
  /\ [](/\ PolicyRows("v1.0.0") <= 1
        /\ Len(privacy_policy_versions) = PolicyRows("v1.0.0")
        /\ (run.cmd = "init-appi" /\ run.pc = "done" /\ run.error = "none") =>
             /\ PolicyRows("v1.0.0") = 1
             /\ appi_audit_events # <<>>
             /\ appi_audit_events[Len(appi_audit_events)] = environment
        /\ (prev.cmd = "init-appi" /\ prev.error = "none") =>
             PolicyRows("v1.0.0") = 1)
  /\ [][/\ appi_audit_events' # appi_audit_events =>
             /\ run.pc = "i_audit" /\ run.error = "none"
             /\ appi_audit_events' = Append(appi_audit_events, environment)
        /\ (run.pc = "i_audit" /\ run'.error = "none") =>
             appi_audit_events' = Append(appi_audit_events, environment)
        /\ (run.pc = "i_policy" /\ run'.error # "none") =>
             /\ run'.pc = "i_finally"
             /\ UNCHANGED <<privacy_policy_versions, appi_audit_events>>
        /\ run.pc = "i_finally" =>
             UNCHANGED <<privacy_policy_versions, appi_audit_events>>]_vars

\* two initializeAPPIData runs in a row ended without error: one policy row,
\* two audit rows
C37_Witness ==
  /\ run.cmd = "init-appi" /\ run.pc = "done" /\ run.error = "none"
  /\ prev.cmd = "init-appi" /\ prev.error = "none"
  /\ PolicyRows("v1.0.0") = 1
  /\ Len(appi_audit_events) >= 2

(***************************************************************************)
(* Properties of main() for unknown commands.                              *)
(***************************************************************************)
Commands == {"migrate", "status", "init-appi"}

UnknownCommand == run.main /\ run.cmd \notin Commands

\* no store query was made and no persisted state modified by the invocation
NothingTouched ==
  /\ run.trace = <<>> /\ run.health = "none"
  /\ schema_migrations = run.before /\ schema = run.beforeSchema
  /\ tx = NoTx

\* C38 as stated: for every command other than migrate, status and init-appi
\* the process exits non-zero after printing the usage, without any store
\* query and without modifying persisted state.
C38_UnknownCommandPrintsUsage ==
  (UnknownCommand /\ run.pc = "done") =>
    /\ run.exitCode # 0
    /\ run.error = "usage"
    /\ NothingTouched

\* C38, amended: for every such command the process exits non-zero without
\* any store query and without modifying persisted state.  The usage is
\* printed when the environment was resolved and the confirmation, where one
\* is required, was given; with a missing or unconfigured selector the
\* process exits on the configuration error instead, and on a declined
\* confirmation on the cancellation.
C38_UnknownCommandExitsNonZero ==
  /\ [](UnknownCommand =>
          /\ run.pc \in {"main_gate", "main_switch", "done"}
          /\ NothingTouched
          /\ run.pc = "done" =>
               /\ run.exitCode = 1
               /\ run.error \in {"usage", "config", "declined"}
               /\ run.error = "config" <=> run.selector \notin Configured
               /\ run.error = "declined" <=> run.gate = "Abort"
               /\ run.error = "usage" =>
                    run.selector \in Configured /\ run.gate # "Abort")
  /\ [][(run'.main /\ run'.cmd \notin Commands) =>
          UNCHANGED <<tableExists, schema_migrations, schema, tx,
                      privacy_policy_versions, appi_audit_events>>]_vars

\* the usage was printed over a store that an earlier run populated
C38_Witness ==
  /\ UnknownCommand /\ run.pc = "done" /\ run.error = "usage"
  /\ run.exitCode = 1
  /\ prev.cmd = "migrate" /\ schema_migrations # {}

(***************************************************************************)
(* Properties of close().                                                  *)
(***************************************************************************)
\* the calls that end in this step
Ending(c) == call[c].pc # "done" /\ call'[c].pc = "done"

\* C36: once close() has completed the manager stays closed: a further
\* close() changes nothing; every getConnection, query and transaction made
\* afterwards fails with an error, having acquired no client, sent no
\* statement and emitted no audit event; a healthCheck made afterwards
\* returns {healthy: false, latency: -1} instead of throwing.
C36_ClosedForGood ==
  /\ [](pgPool = "closed" =>
          /\ closes >= 1 /\ checkedOut = 0
          /\ \A c \in Callers : call[c].pc \in {"connect", "done"})
  /\ [][pgPool = "closed" =>
          /\ pgPool' = "closed"
          /\ closes' # closes => UNCHANGED <<checkedOut, call, calls>>
          /\ \A c \in Callers :
               Ending(c) =>
                 /\ call'[c].outcome = "threw" /\ call'[c].failed = "connect"
                 /\ ~call'[c].acquired /\ call'[c].releases = 0
                 /\ call'[c].issued = <<>> /\ call'[c].audit = {}
                 /\ call'[c].kind = "healthCheck" =>
                      call'[c].health = [healthy |-> FALSE, latency |-> -1]]_vars

\* close() was called twice, and after it a health check reported unhealthy
\* and a transaction failed without a client
C36_Witness ==
  /\ pgPool = "closed" /\ closes = 2
  /\ \E c, d \in Callers :
       /\ call[c].kind = "healthCheck" /\ call[c].pc = "done"
       /\ call[c].health = [healthy |-> FALSE, latency |-> -1]
       /\ call[d].kind = "transaction" /\ call[d].pc = "done"
       /\ call[d].failed = "connect" /\ call[d].issued = <<>>

(***************************************************************************)
(* Progress of the calls of the connection manager.  Each step of a call   *)
(* is the continuation of a promise that settles: the server answers or    *)
(* the connection fails, and the pool rejects a waiting acquisition after  *)
(* connectionTimeoutMillis; the event loop runs every such continuation.   *)
(***************************************************************************)
PgStep ==
  \/ PgGetConnection
  \/ PgConnectionAudit
  \/ PgStatement
  \/ PgBegin
  \/ PgCallback
  \/ PgCommit
  \/ PgRollback
  \/ PgRelease

StepOf(c) == PgStep /\ call'[c] # call[c]

PoolLiveSpec ==
  /\ PoolInit
  /\ [][PgNext]_vars
  /\ \A c \in Callers : WF_vars(StepOf(c))

\* C32: with a pool of `max` clients and as many concurrent query() and
\* transaction() calls, each holding a client, every call ends: the client
\* that the audit-log emission asks of the pool while the call holds one
\* cannot keep the call waiting for ever.
C32_EveryCallCompletes ==
  \A c \in Callers : [](call[c].pc # "done" => <>(call[c].pc = "done"))

\* every client of the pool is held by a call that has an audit event to
\* emit next
C32_Witness ==
  /\ checkedOut = max
  /\ \A c \in Callers : call[c].pc \in {"acquired", "statement", "begin"}
  /\ \E c \in Callers : call[c].kind = "query"
  /\ \E c \in Callers : call[c].kind = "transaction"

(***************************************************************************)
(* Concurrent migrate runs.                                                *)
(***************************************************************************)
\* the run of r found `version` not applied and did not commit it
Lost(r, version) ==
  version \in racer[r].observed \ racer[r].committed

\* C31: when two migrate runs against one store both find a unit not
\* applied, at most one tracking record of the version is ever committed
\* and the unit's content is committed at most once; the run that does not
\* commit has its transaction rolled back (neither its execution nor its
\* tracking row reaches the store) and ends in failure, exit status 1,
\* without counting the unit as applied.
C31_OneRunWins ==
  \A v \in Versions :
    /\ Cardinality({row \in schema_migrations : row.version = v}) <= 1
    /\ SchemaCount(schema, v) <= 1
    /\ \A r, s \in Runners :
         (r # s /\ v \in racer[r].observed /\ v \in racer[s].observed)
           => ~(v \in racer[r].committed /\ v \in racer[s].committed)
    /\ \A r \in Runners :
         (racer[r].pc = "done" /\ Lost(r, v)) =>
           /\ racer[r].exitCode = 1 /\ racer[r].error # "none"
           /\ racer[r].appliedCount = Cardinality(racer[r].committed)
           /\ racer[r].tx = NoTx
           /\ ~\E row \in schema_migrations :
                  row.version = v /\ row.applied_at = racer[r].now

====
